---------------------------- MODULE Spec2Model ----------------------------
(***************************************************************************)
(* A model of the WAF reverse proxy (waf_proxy): client-IP derivation,     *)
(* the security engine, the token-bucket rate limiter, the request         *)
(* pipeline of WAFMiddleware.__call__ and WAFMiddleware.reload_config.     *)
(*                                                                         *)
(* Seventeen specifications share the variables:                           *)
(*   ClientIpSpec  get_client_ip applied to drawn requests                 *)
(*   EngineSpec    SecurityEngine built from drawn configs, evaluate and   *)
(*                 _decide_verdict applied to drawn inputs                 *)
(*   Spec          the request pipeline interleaved with reload_config     *)
(*                 and the passage of time                                 *)
(*   LimiterSpec   RateLimiter.is_allowed and cleanup_old_buckets applied  *)
(*                 as the clock advances                                   *)
(*   PollSpec      the iterations of poll_control_plane_config             *)
(*   HeaderSpec    filter_request_headers and filter_response_headers      *)
(*                 applied to drawn header dicts                           *)
(*   RouterSpec    Router.get_upstream applied to drawn upstream lists     *)
(*   ConfigSpec    load_config and reload_config applied to candidates     *)
(*   NormalizeSpec build_inspection_dict and normalize_query applied to    *)
(*                 drawn texts                                             *)
(*   ForwardingSpec add_forwarding_headers applied to drawn header dicts   *)
(*   SendSpec      the sending of the response __call__ has reached        *)
(*   ProxySpec     ProxyClient.forward_request applied to drawn requests   *)
(*   SweeperSpec   the rate-limiter sweeper of lifespan next to reloads    *)
(*   ConcurrentSpec  is_allowed coroutines and a sweep under the lock      *)
(*   SweepEquivSpec  a limiter that is swept next to one that is not       *)
(*   XffPairSpec   two runs that differ in X-Forwarded-For only            *)
(*   PollLoopSpec  the control flow of the poll loop, with fairness        *)
(***************************************************************************)
EXTENDS Integers, Sequences, FiniteSets, TLC

VARIABLES
    mw,      \* the WAFMiddleware object: its live fields
    now,     \* time.monotonic(), in whole seconds
    req,     \* the requests: position in __call__, inputs, locals, response
    engine,  \* EngineSpec: the SecurityEngine under test
    call,    \* the function-level specifications: the call and what it returned
    poller,  \* poll_control_plane_config: its locals between iterations
    metrics  \* the counters of observability/metrics.py, summed over labels

vars == <<mw, now, req, engine, call, poller, metrics>>

\* ------------------------------------------------------------------ bounds

AddrBits == 2        \* host bits of an address (both families)
MaxXff == 2          \* entries of an X-Forwarded-For header
MaxTrusted == 2      \* entries of trusted_proxies
MaxRules == 2        \* rules of a config
MaxReq == 2          \* requests of a run
MaxChunks == 2       \* body chunks a client sends
MaxTime == 30        \* the monotonic clock stops here
TickSeconds == 30    \* seconds that pass in one step of the clock
Ulps == 4            \* rounding units in a sixtieth of a token

\* --------------------------------------------------------- IP addresses
\* An IP string is modelled by a number: family * 2^AddrBits + host for a
\* string ipaddress.ip_address accepts (family 0 is IPv4, 1 is IPv6), a
\* negative number for a string it rejects (ValueError).

RECURSIVE Pow2(_)
Pow2(n) == IF n = 0 THEN 1 ELSE 2 * Pow2(n - 1)

AddrSpace == Pow2(AddrBits)
Addr == 0 .. (2 * AddrSpace - 1)
BadIp == 0 - 1
IsIp(s) == s \in Addr
Family(a) == a \div AddrSpace
Host(a) == a % AddrSpace
V4(h) == h
V6(h) == AddrSpace + h

\* ipaddress.ip_network(text, strict=False): family, base and prefix length;
\* the host bits of base are masked by the containment test.
Cidr(f, b, l) == [fam |-> f, base |-> b, len |-> l]
InNet(a, n) ==
    /\ Family(a) = n.fam
    /\ Host(a) \div Pow2(AddrBits - n.len) = n.base \div Pow2(AddrBits - n.len)
InAnyNet(a, nets) == \E i \in 1 .. Len(nets) : InNet(a, nets[i])

SeqsUpTo(S, n) == UNION {[1 .. k -> S] : k \in 0 .. n}
Last(s) == s[Len(s)]
Front(s) == SubSeq(s, 1, Len(s) - 1)

\* -------------------------------------------------------- get_client_ip
\* request.client is None (NoClient) or has a host string; the header
\* x-forwarded-for is the sequence of its comma-separated, stripped entries,
\* <<>> when the header is absent or empty.

NoClient == 0 - 2
ZeroAddr == V4(0)       \* '0.0.0.0'

\* drops the peer alone
StripTrusted_once(chain, nets) ==
    IF chain # <<>> /\ InAnyNet(Last(chain), nets) THEN Front(chain)
    ELSE chain

\* the while loop of lines 86-103: drop trusted (or unparsable) elements
\* from the right
RECURSIVE StripTrusted(_, _)
StripTrusted(chain, nets) ==
    IF chain = <<>> THEN chain
    ELSE IF ~IsIp(Last(chain)) THEN StripTrusted(Front(chain), nets)
    ELSE IF InAnyNet(Last(chain), nets) THEN StripTrusted(Front(chain), nets)
    ELSE chain

peer_ip_of(client) == IF client = NoClient THEN ZeroAddr ELSE client

get_client_ip_always_xff(client, xff, trusted_proxies) ==
    LET peer_ip == peer_ip_of(client)
        chain == StripTrusted(Append(SelectSeq(xff, IsIp), peer_ip),
                              trusted_proxies)
    IN  IF xff = <<>> THEN peer_ip
        ELSE IF chain # <<>> THEN Last(chain) ELSE peer_ip

get_client_ip(client, xff, trusted_proxies) ==
    LET peer_ip == peer_ip_of(client)
    IN  IF trusted_proxies = <<>> THEN peer_ip
        ELSE IF ~IsIp(peer_ip) THEN peer_ip
        ELSE IF ~InAnyNet(peer_ip, trusted_proxies) THEN peer_ip
        ELSE IF xff = <<>> THEN peer_ip
        ELSE LET xff_list == SelectSeq(xff, IsIp)
                 chain == StripTrusted(Append(xff_list, peer_ip),
                                       trusted_proxies)
             IN  IF chain # <<>> THEN Last(chain) ELSE peer_ip

\* inputs of ClientIpSpec
ClientPool == {V4(0), V4(1), V4(2), V6(0), BadIp, NoClient}
XffEntryPool == {V4(1), V4(3), V6(1), BadIp}
TrustedPool == {Cidr(0, 0, 0), Cidr(1, 0, 0), Cidr(0, 0, 1), Cidr(0, 2, 2)}
XffValues == SeqsUpTo(XffEntryPool, MaxXff)
TrustedValues == SeqsUpTo(TrustedPool, MaxTrusted)

NoCall == [fn |-> "none", done |-> TRUE]
IdleMw == [config |-> 0]
IdleEngine == [mode |-> "none"]

\* the counters metrics.py registers
MetricNames ==
    {"requests_total", "waf_rule_hits_total", "rate_limited_requests_total",
     "upstream_errors_total"}
ZeroMetrics == [m \in MetricNames |-> 0]
inc(registry, name) == [registry EXCEPT ![name] = @ + 1]

\* what client.get gave: a response (status, parsed body, ETag header) or the
\* exception it raised
Response(status, body, etag) ==
    [status |-> status, body |-> body, etag |-> etag, raised |-> ""]
GetRaised(exc) == [status |-> 0, body |-> 0, etag |-> "", raised |-> exc]

\* the locals of the poll loop: last_etag (None is the empty string), the
\* If-None-Match header of the last request, the last response, the exception
\* the last iteration caught, and the number of iterations so far
IdlePoller ==
    [last_etag |-> "", if_none_match |-> "", response |-> GetRaised("none"),
     caught |-> "", polls |-> 0]

ClientIpInit ==
    /\ call \in [fn : {"get_client_ip"}, client : ClientPool, xff : XffValues,
                  trusted_proxies : TrustedValues, done : {FALSE},
                  out : {BadIp}]
    /\ mw = IdleMw /\ now = 0 /\ req = <<>> /\ engine = IdleEngine
    /\ poller = IdlePoller /\ metrics = ZeroMetrics

GetClientIpCall ==
    /\ call.fn = "get_client_ip" /\ ~call.done
    /\ call' = [call EXCEPT !.done = TRUE,
                 !.out = get_client_ip(call.client, call.xff,
                                       call.trusted_proxies)]
    /\ UNCHANGED <<mw, now, req, engine, poller, metrics>>

ClientIpNext == GetClientIpCall
ClientIpSpec == ClientIpInit /\ [][ClientIpNext]_vars

\* the peer is a parsable address inside some trusted CIDR
PeerTrusted(client, trusted_proxies) ==
    /\ IsIp(peer_ip_of(client))
    /\ InAnyNet(peer_ip_of(client), trusted_proxies)

\* some X-Forwarded-For value changes what get_client_ip returns
XffProbes == XffValues \cup {<<a>> : a \in Addr}
XffInfluences(client, trusted_proxies) ==
    \E x \in XffProbes :
        get_client_ip(client, x, trusted_proxies)
            # get_client_ip(client, <<>>, trusted_proxies)

IpCallDone == call.fn = "get_client_ip" /\ call.done

\* C6 (as claimed): X-Forwarded-For influences the client IP if and only if
\* the peer is inside some trusted CIDR; for an untrusted peer the result is
\* the peer address whatever the header.
C6_XffHonoredIffPeerTrusted ==
    IpCallDone =>
        /\ XffInfluences(call.client, call.trusted_proxies)
              <=> PeerTrusted(call.client, call.trusted_proxies)
        /\ ~PeerTrusted(call.client, call.trusted_proxies)
              => call.out = peer_ip_of(call.client)

\* C6 (amended): X-Forwarded-For can change the client IP only if the peer
\* is inside a trusted CIDR, and it does whenever the peer is trusted and some
\* address lies outside every trusted CIDR; when trusted_proxies is empty or
\* the peer is outside every trusted CIDR the result is the peer address for
\* every X-Forwarded-For value.
C6_XffHonoredOnlyFromTrustedPeer ==
    IpCallDone =>
        /\ XffInfluences(call.client, call.trusted_proxies)
              => PeerTrusted(call.client, call.trusted_proxies)
        /\ ( /\ PeerTrusted(call.client, call.trusted_proxies)
             /\ \E a \in Addr : ~InAnyNet(a, call.trusted_proxies) )
              => XffInfluences(call.client, call.trusted_proxies)
        /\ ~PeerTrusted(call.client, call.trusted_proxies)
              => call.out = peer_ip_of(call.client)

\* a trusted peer whose header names an untrusted client, and an untrusted
\* peer sending a header
C6_Witness ==
    /\ IpCallDone
    /\ PeerTrusted(call.client, call.trusted_proxies)
    /\ call.xff # <<>>
    /\ call.out # peer_ip_of(call.client)
    /\ call.out = Last(call.xff)

\* C23: when the peer is inside a trusted CIDR, get_client_ip returns the
\* rightmost element of (parsable X-Forwarded-For entries, then the peer)
\* that is inside no trusted CIDR, and the peer when every element is
\* trusted; the result is never a trusted address other than the peer.
C23_RightmostUntrusted ==
    (IpCallDone /\ PeerTrusted(call.client, call.trusted_proxies)) =>
        LET peer == peer_ip_of(call.client)
            chain == Append(SelectSeq(call.xff, IsIp), peer)
            untrusted == {i \in DOMAIN chain :
                             ~InAnyNet(chain[i], call.trusted_proxies)}
        IN  /\ untrusted = {} => call.out = peer
            /\ untrusted # {} =>
                   \E i \in untrusted :
                       /\ \A k \in untrusted : k <= i
                       /\ call.out = chain[i]
            /\ InAnyNet(call.out, call.trusted_proxies) => call.out = peer

\* a trusted peer, a header whose last entry is a trusted proxy and whose
\* first entry is the untrusted client
C23_Witness ==
    /\ IpCallDone
    /\ PeerTrusted(call.client, call.trusted_proxies)
    /\ Len(call.xff) = 2
    /\ IsIp(call.xff[2])
    /\ InAnyNet(call.xff[2], call.trusted_proxies)
    /\ call.xff[2] # peer_ip_of(call.client)
    /\ call.out = call.xff[1]
    /\ ~InAnyNet(call.out, call.trusted_proxies)

\* -------------------------------------------------------- SecurityEngine
\* Texts are sequences of characters. A rule pattern is a literal that
\* re.compile accepts (ok) and re.search finds as a contiguous substring, or
\* a text that re.compile rejects (re.error).

NoneVal == [none |-> TRUE]
IsNone(x) == "none" \in DOMAIN x

Literal(t) == [ok |-> TRUE, lit |-> t]
BadPattern == [ok |-> FALSE, lit |-> <<>>]
\* a text for which re.compile raises another exception than re.error
\* ('a{4294967296}': OverflowError, the repetition number is too large)
HugePattern == [ok |-> FALSE, lit |-> <<>>, raises |-> "OverflowError"]

\* what re.compile(pattern_text) raises, "" when it returns
compile_raises(pattern) ==
    IF "raises" \in DOMAIN pattern THEN pattern.raises
    ELSE IF pattern.ok THEN "" ELSE "re.error"

Search(pattern, text) ==
    \E i \in 0 .. (Len(text) - Len(pattern.lit)) :
        SubSeq(text, i + 1, i + Len(pattern.lit)) = pattern.lit

\* text[:n], n possibly negative
Truncate(text, n) ==
    IF n >= 0
    THEN SubSeq(text, 1, IF n < Len(text) THEN n ELSE Len(text))
    ELSE SubSeq(text, 1, IF Len(text) + n > 0 THEN Len(text) + n ELSE 0)

\* inspection.get(target_field, '') or ''
Field(inspection, target_field) ==
    IF target_field \in DOMAIN inspection THEN inspection[target_field]
    ELSE <<>>

\* list entries: a single address, a network, or a text that is neither
IpEntry(a) == [kind |-> "ip", addr |-> a, net |-> Cidr(0, 0, 0)]
NetEntry(f, b, l) == [kind |-> "net", addr |-> 0, net |-> Cidr(f, b, l)]
BadEntry == [kind |-> "bad", addr |-> 0, net |-> Cidr(0, 0, 0)]

_parse_ip_list(entries) == SelectSeq(entries, LAMBDA e : e.kind # "bad")

\* rules whose pattern compiles, in declaration order
CompileRules(raw_rules) == SelectSeq(raw_rules, LAMBDA r : r.pattern.ok)

DefaultAllow == 5
DefaultChallenge == 6
DefaultBlock == 10
DefaultMaxInspectBytes == 10000
DefaultMaxBodyBytes == 1000000
BlocklistScore == 100

\* lines 62-73: 'except re.error' skips the rule; any other exception of
\* re.compile leaves __init__. "" when the engine is built.
SecurityEngine_raises(config) ==
    IF \E i \in DOMAIN config.rules :
          compile_raises(config.rules[i].pattern) \notin {"", "re.error"}
    THEN "OverflowError"
    ELSE ""

SecurityEngine(config) ==
    [ip_allowlist |-> _parse_ip_list(config.ip_allowlist),
     ip_blocklist |-> _parse_ip_list(config.ip_blocklist),
     allow_threshold |-> IF IsNone(config.thresholds) THEN DefaultAllow
                         ELSE config.thresholds.allow,
     challenge_threshold |-> IF IsNone(config.thresholds) THEN DefaultChallenge
                             ELSE config.thresholds.challenge,
     block_threshold |-> IF IsNone(config.thresholds) THEN DefaultBlock
                         ELSE config.thresholds.block,
     mode |-> IF IsNone(config.waf_settings) THEN "block"
              ELSE config.waf_settings.mode,
     max_inspect_bytes |-> IF IsNone(config.waf_settings)
                           THEN DefaultMaxInspectBytes
                           ELSE config.waf_settings.max_inspect_bytes,
     rules |-> CompileRules(config.rules)]

\* _ip_in_list returns "False" for a client_ip that does not parse (ValueError
\* is caught) and for an empty list. With a parsable client_ip and a
\* non-empty list the first iteration evaluates ipaddress.IPAddress, a name
\* the ipaddress module does not define: AttributeError, which the
\* except ValueError clause does not catch.
_ip_in_list(client_ip, ip_list) ==
    IF ~IsIp(client_ip) THEN "False"
    ELSE IF ip_list = <<>> THEN "False"
    ELSE "AttributeError"

_decide_verdict_blocking(eng, score) ==
    IF score >= eng.block_threshold THEN "BLOCK"
    ELSE IF score > eng.allow_threshold THEN "SUSPICIOUS"
    ELSE "ALLOW"

_decide_verdict(eng, score) ==
    LET verdict == IF score >= eng.block_threshold THEN "BLOCK"
                   ELSE IF score > eng.allow_threshold THEN "SUSPICIOUS"
                   ELSE "ALLOW"
    IN  IF eng.mode = "monitor" /\ verdict = "BLOCK" THEN "SUSPICIOUS"
        ELSE verdict

Finding(id, target, score) == [rule_id |-> id, target |-> target, score |-> score]

\* the loop of lines 188-214
RECURSIVE RuleFindings(_, _, _)
RuleFindings(rules, inspection, max_inspect_bytes) ==
    IF rules = <<>> THEN <<>>
    ELSE LET rule == Head(rules)
             text == Truncate(Field(inspection, rule.target), max_inspect_bytes)
             rest == RuleFindings(Tail(rules), inspection, max_inspect_bytes)
         IN  IF rule.enabled /\ Search(rule.pattern, text)
             THEN <<Finding(rule.id, rule.target, rule.score)>> \o rest
             ELSE rest

RECURSIVE SumScores(_)
SumScores(findings) ==
    IF findings = <<>> THEN 0
    ELSE Head(findings).score + SumScores(Tail(findings))

RECURSIVE RuleIds(_)
RuleIds(findings) ==
    IF findings = <<>> THEN <<>>
    ELSE IF Head(findings).rule_id # ""
         THEN <<Head(findings).rule_id>> \o RuleIds(Tail(findings))
         ELSE RuleIds(Tail(findings))

Returned(verdict, score, findings, rule_ids) ==
    [exc |-> "none", verdict |-> verdict, score |-> score,
     findings |-> findings, rule_ids |-> rule_ids]
Raised(exc) ==
    [exc |-> exc, verdict |-> "none", score |-> 0,
     findings |-> <<>>, rule_ids |-> <<>>]

evaluate(eng, inspection, client_ip) ==
    LET allowed == _ip_in_list(client_ip, eng.ip_allowlist)
        blocked == _ip_in_list(client_ip, eng.ip_blocklist)
        findings == RuleFindings(eng.rules, inspection, eng.max_inspect_bytes)
        total_score == SumScores(findings)
    IN  IF allowed = "AttributeError" THEN Raised("AttributeError")
        ELSE IF allowed = "True"
        THEN Returned("ALLOW", 0, <<Finding("allowlist", "ip", 0)>>,
                      <<"allowlist">>)
        ELSE IF blocked = "AttributeError" THEN Raised("AttributeError")
        ELSE IF blocked = "True"
        THEN Returned(_decide_verdict(eng, BlocklistScore), BlocklistScore,
                      <<Finding("blocklist", "ip", BlocklistScore)>>,
                      <<"blocklist">>)
        ELSE Returned(_decide_verdict(eng, total_score), total_score,
                      findings, RuleIds(findings))


\* --------------------------------------------------------------- EngineSpec

Thresholds(a, c, b) == [allow |-> a, challenge |-> c, block |-> b]
WafSettings(m, mib, mbb, ib) ==
    [mode |-> m, max_inspect_bytes |-> mib, max_body_bytes |-> mbb,
     inspect_body |-> ib]
Rule(id, target, pattern, score, enabled) ==
    [id |-> id, target |-> target, pattern |-> pattern, score |-> score,
     enabled |-> enabled]

\* inputs of EngineSpec. models.py validates none of the thresholds, so a
\* Config accepts every integer triple, allow >= block included.
RulePool ==
    {Rule("R1", "path", Literal(<<"a">>), 5, TRUE),
     Rule("R2", "query", Literal(<<"b">>), 6, TRUE),
     Rule("R3", "path", Literal(<<"a", "b">>), 10, TRUE),
     Rule("R4", "body", Literal(<<>>), 4, TRUE),
     Rule("R5", "path", Literal(<<"a">>), 9, FALSE),
     Rule("R6", "path", BadPattern, 10, TRUE)}
ThresholdsPool ==
    {NoneVal, Thresholds(0, 0, 1), Thresholds(10, 6, 5), Thresholds(5, 6, 200)}
WafSettingsPool ==
    {WafSettings("block", 1, 2, FALSE), WafSettings("block", 2, 2, FALSE),
     WafSettings("monitor", 1, 2, FALSE), WafSettings("monitor", 2, 2, FALSE)}
AllowlistPool == {<<>>, <<IpEntry(V4(1)), NetEntry(0, 2, 1)>>}
BlocklistPool == {<<>>, <<IpEntry(V4(1)), IpEntry(V4(0))>>}
EngineConfigs ==
    [ip_allowlist : AllowlistPool, ip_blocklist : BlocklistPool,
     thresholds : ThresholdsPool, waf_settings : WafSettingsPool,
     rules : SeqsUpTo(RulePool, MaxRules)]

InspectionPool ==
    {[path |-> p, query |-> q] :
        p \in {<<>>, <<"a">>, <<"a", "b">>}, q \in {<<>>, <<"a", "b">>}}
EvalClientPool == {V4(0), V4(1), V4(2), V6(0), BadIp}
ScorePool == {0, 1, 5, 6, 7, 9, 10, 11, 100, 200}

NoInspection == [path |-> <<>>, query |-> <<>>]
NoResult == Raised("pending")

EngineInit ==
    /\ \E config \in EngineConfigs : engine = SecurityEngine(config)
    /\ \/ call \in [fn : {"evaluate"}, inspection : InspectionPool,
                    client_ip : EvalClientPool, score : {0}, done : {FALSE},
                    out : {NoResult}]
       \/ call \in [fn : {"_decide_verdict"}, inspection : {NoInspection},
                    client_ip : {BadIp}, score : ScorePool, done : {FALSE},
                    out : {NoResult}]
    /\ mw = IdleMw /\ now = 0 /\ req = <<>>
    /\ poller = IdlePoller /\ metrics = ZeroMetrics

EvaluateCall ==
    /\ call.fn = "evaluate" /\ ~call.done
    /\ call' = [call EXCEPT !.done = TRUE,
                 !.out = evaluate(engine, call.inspection, call.client_ip)]
    /\ UNCHANGED <<mw, now, req, engine, poller, metrics>>

DecideVerdictCall ==
    /\ call.fn = "_decide_verdict" /\ ~call.done
    /\ call' = [call EXCEPT !.done = TRUE,
                 !.out = Returned(_decide_verdict(engine, call.score),
                                  call.score, <<>>, <<>>)]
    /\ UNCHANGED <<mw, now, req, engine, poller, metrics>>

EngineNext == EvaluateCall \/ DecideVerdictCall
EngineSpec == EngineInit /\ [][EngineNext]_vars


\* ------------------------------------------------- claims on the engine

\* client_ip equals an IP entry of the list or lies inside a CIDR entry
IpOnList(client_ip, ip_list) ==
    /\ IsIp(client_ip)
    /\ \E i \in 1 .. Len(ip_list) :
          \/ ip_list[i].kind = "ip" /\ ip_list[i].addr = client_ip
          \/ ip_list[i].kind = "net" /\ InNet(client_ip, ip_list[i].net)

EvalDone == call.fn = "evaluate" /\ call.done
DecideDone == call.fn = "_decide_verdict" /\ call.done

\* C1: a client_ip on the allowlist gets ALLOW, score 0 and rule_ids
\* ['allowlist'], also when it is on the blocklist or blocking rules match.
C1_AllowlistShortCircuits ==
    (EvalDone /\ IpOnList(call.client_ip, engine.ip_allowlist)) =>
        /\ call.out.exc = "none"
        /\ call.out.verdict = "ALLOW"
        /\ call.out.score = 0
        /\ call.out.rule_ids = <<"allowlist">>

\* C2: in monitor mode evaluate (and _decide_verdict) never returns BLOCK, and
\* what the same engine in block mode returns as BLOCK is returned as
\* SUSPICIOUS with the same score and the same findings.
C2_MonitorNeverBlocks ==
    /\ (call.done /\ engine.mode = "monitor") => call.out.verdict # "BLOCK"
    /\ (EvalDone /\ engine.mode = "monitor") =>
          LET inBlockMode == evaluate([engine EXCEPT !.mode = "block"],
                                      call.inspection, call.client_ip)
          IN  inBlockMode.verdict = "BLOCK" =>
                 /\ call.out.exc = "none"
                 /\ call.out.verdict = "SUSPICIOUS"
                 /\ call.out.score = inBlockMode.score
                 /\ call.out.findings = inBlockMode.findings
                 /\ call.out.rule_ids = inBlockMode.rule_ids

\* a monitor-mode evaluation whose score reaches the block threshold
C2_Witness ==
    /\ EvalDone
    /\ engine.mode = "monitor"
    /\ call.out.exc = "none"
    /\ call.out.score >= engine.block_threshold
    /\ call.out.findings # <<>>
    /\ call.out.verdict = "SUSPICIOUS"

\* C3: in block mode, for every score and every thresholds triple a Config
\* accepts, the verdict is BLOCK iff s >= block, SUSPICIOUS iff
\* allow < s < block, ALLOW iff s <= allow.
C3_ThresholdTrichotomy ==
    (DecideDone /\ engine.mode = "block") =>
        /\ call.out.verdict = "BLOCK" <=> call.score >= engine.block_threshold
        /\ call.out.verdict = "SUSPICIOUS" <=>
              ( /\ engine.allow_threshold < call.score
                /\ call.score < engine.block_threshold )
        /\ call.out.verdict = "ALLOW" <=> call.score <= engine.allow_threshold

\* the enabled rules of the engine whose pattern matches their target field
MatchedRules(eng, inspection) ==
    {i \in 1 .. Len(eng.rules) :
        /\ eng.rules[i].enabled
        /\ Search(eng.rules[i].pattern,
                  Truncate(Field(inspection, eng.rules[i].target),
                           eng.max_inspect_bytes))}

RECURSIVE SumOver(_, _)
SumOver(S, rules) ==
    IF S = {} THEN 0
    ELSE LET i == CHOOSE j \in S : TRUE
         IN  rules[i].score + SumOver(S \ {i}, rules)

Permuted(eng, perm) ==
    [eng EXCEPT !.rules = [i \in 1 .. Len(eng.rules) |-> eng.rules[perm[i]]]]

\* C4: for a client IP on neither list the score evaluate returns is the sum
\* of the scores of the enabled rules that match, and permuting the rule list
\* changes neither the score nor the verdict.
C4_ScoreIsSumOfMatches ==
    ( /\ EvalDone
      /\ ~IpOnList(call.client_ip, engine.ip_allowlist)
      /\ ~IpOnList(call.client_ip, engine.ip_blocklist) ) =>
        /\ call.out.exc = "none"
        /\ call.out.score
              = SumOver(MatchedRules(engine, call.inspection), engine.rules)
        /\ \A perm \in Permutations(1 .. Len(engine.rules)) :
              LET other == evaluate(Permuted(engine, perm), call.inspection,
                                    call.client_ip)
              IN  /\ other.score = call.out.score
                  /\ other.verdict = call.out.verdict

\* C5: in block mode a client IP on the blocklist and not on the allowlist
\* gets BLOCK with score 100 and rule_ids ['blocklist'], no rule evaluated.
C5_BlocklistBlocks ==
    ( /\ EvalDone
      /\ engine.mode = "block"
      /\ IpOnList(call.client_ip, engine.ip_blocklist)
      /\ ~IpOnList(call.client_ip, engine.ip_allowlist) ) =>
        /\ call.out.exc = "none"
        /\ call.out.verdict = "BLOCK"
        /\ call.out.score = BlocklistScore
        /\ call.out.rule_ids = <<"blocklist">>
        /\ call.out.findings = <<Finding("blocklist", "ip", BlocklistScore)>>


\* ------------------------------------------------------------ RateLimiter
\* tokens is a float. It is counted here in units of 1 / TokenUnit of a
\* token: a sixtieth of a token (what one second refills at 1 rpm) is Ulps
\* units. elapsed * refill_rate and its sum with tokens are rounded by the
\* floating-point unit; the rounding error of one refill is a choice (err)
\* of at most one unit, and it is zero when no time has elapsed or the rate
\* is zero (x * 0.0 and y + 0.0 are exact).

SecondsPerMinute == 60
TokenUnit == SecondsPerMinute * Ulps
RoundingErrors == {0 - 1, 0, 1}

TokenBucket(capacity, refill_rate, t) ==
    [capacity |-> capacity, refill_rate |-> refill_rate,
     tokens |-> TokenUnit * capacity, last_refill |-> t]

Min(a, b) == IF a <= b THEN a ELSE b

allow_request(bucket, t, err) ==
    LET elapsed == t - bucket.last_refill
        rounding == IF elapsed = 0 \/ bucket.refill_rate = 0 THEN 0 ELSE err
        refilled == Min(TokenUnit * bucket.capacity,
                        bucket.tokens + elapsed * bucket.refill_rate * Ulps
                        + rounding)
    IN  IF refilled >= TokenUnit
        THEN [ok |-> TRUE,
              bucket |-> [bucket EXCEPT !.tokens = refilled - TokenUnit,
                                        !.last_refill = t]]
        ELSE [ok |-> FALSE,
              bucket |-> [bucket EXCEPT !.tokens = refilled, !.last_refill = t]]

RateLimiter(default_rpm) == [default_rpm |-> default_rpm, buckets |-> <<>>]

\* limit = 0 stands for limit=None; buckets is a defaultdict
is_allowed(rl, key, limit, t, err) ==
    LET bucket == IF key \in DOMAIN rl.buckets THEN rl.buckets[key]
                  ELSE IF limit # 0 THEN TokenBucket(limit, limit, t)
                  ELSE TokenBucket(rl.default_rpm, rl.default_rpm, t)
        res == allow_request(bucket, t, err)
    IN  [ok |-> res.ok,
         rl |-> [rl EXCEPT !.buckets =
                    [k \in DOMAIN rl.buckets \cup {key} |->
                        IF k = key THEN res.bucket ELSE rl.buckets[k]]]]

\* ---------------------------------------------------------- WAFMiddleware

DefaultRpm == 60

Router(upstreams) == [upstreams |-> upstreams, current_index |-> 0]

default_rpm_of(config) ==
    IF IsNone(config.rate_limits) THEN DefaultRpm
    ELSE config.rate_limits.requests_per_minute

\* __init__ / _initialize_components; waf_settings and proxy_settings must be
\* present, or waf_cfg.get raises and the application does not start
_initialize_components(config) ==
    [config |-> config,
     security_engine |-> SecurityEngine(config),
     router |-> Router(config.upstreams),
     rate_limiter |-> RateLimiter(default_rpm_of(config)),
     max_inspect_bytes |-> config.waf_settings.max_inspect_bytes,
     max_body_bytes |-> config.waf_settings.max_body_bytes,
     inspect_body |-> config.waf_settings.inspect_body,
     trusted_proxies |-> config.trusted_proxies,
     current_config_version |-> ""]

\* reload_config, lines 112-144. Lines 128-131 swap config, engine, router
\* and limiter. With waf_settings None, waf_cfg.get (line 137) raises
\* AttributeError and the four settings and the version keep their old
\* values. An empty version_hash leaves the version as it is.
reload_config(m, new_config, version_hash) ==
    LET swapped == [m EXCEPT !.config = new_config,
                             !.security_engine = SecurityEngine(new_config),
                             !.router = Router(new_config.upstreams),
                             !.rate_limiter =
                                 RateLimiter(default_rpm_of(new_config))]
    IN  IF SecurityEngine_raises(new_config) # "" THEN m
        ELSE IF IsNone(new_config.waf_settings) THEN swapped
        ELSE [swapped EXCEPT
                 !.max_inspect_bytes = new_config.waf_settings.max_inspect_bytes,
                 !.max_body_bytes = new_config.waf_settings.max_body_bytes,
                 !.inspect_body = new_config.waf_settings.inspect_body,
                 !.trusted_proxies = new_config.trusted_proxies,
                 !.current_config_version =
                     IF version_hash # "" THEN version_hash
                     ELSE m.current_config_version]

\* ---- configurations of the pipeline runs

Config(ups, al, bl, tp, rules, th, rpm, ws) ==
    [upstreams |-> ups, ip_allowlist |-> al, ip_blocklist |-> bl,
     trusted_proxies |-> tp, rules |-> rules, thresholds |-> th,
     rate_limits |-> [requests_per_minute |-> rpm], waf_settings |-> ws]

PathRule == Rule("PT001", "path", Literal(<<"a">>), 10, TRUE)

\* the file-loaded configuration
ConfigA ==
    Config(<<"up1">>, <<>>, <<>>, <<Cidr(0, 0, 1)>>, <<PathRule>>, NoneVal, 1,
           WafSettings("block", 2, 2, FALSE))
\* configurations the control plane serves
ConfigB ==
    Config(<<"up2">>, <<>>, <<>>, <<>>, <<>>, NoneVal, 2,
           WafSettings("monitor", 1, 1, TRUE))
ConfigC ==
    Config(<<"up3">>, <<>>, <<>>, <<>>, <<PathRule>>, NoneVal, 2, NoneVal)
ReloadCandidates ==
    {[config |-> ConfigB, version_hash |-> "etagB"],
     [config |-> ConfigC, version_hash |-> ""]}


\* -------------------------------------------------- WAFMiddleware.__call__
\* A request record holds the inputs (path, method, client, xff,
\* content_length), the locals of __call__ (client_ip, is_allowed, body_len),
\* the settings read from self (seen), the response, and the trail of the calls
\* the handler made for it. request_id is the index of the request.

INTERNAL_PATHS == {<<"/">>}
BodyMethods == {"POST", "PUT", "PATCH"}

NoLength == [kind |-> "absent", n |-> 0]
BadLength == [kind |-> "invalid", n |-> 0]    \* int() raises ValueError
Length(n) == [kind |-> "int", n |-> n]

NothingSeen ==
    [trusted_proxies |-> {}, max_body_bytes |-> {}, max_inspect_bytes |-> {}]

NewRequest ==
    [pc |-> "new", path |-> <<>>, method |-> "", client |-> NoClient,
     xff |-> <<>>, content_length |-> NoLength, client_ip |-> BadIp,
     is_allowed |-> FALSE, body_len |-> 0, chunks |-> 0, seen |-> NothingSeen,
     status |-> 0, error |-> "", headers |-> {}, trail |-> <<>>]

Respond(q, status, error, headers) ==
    [q EXCEPT !.pc = "done", !.status = status, !.error = error,
              !.headers = headers]

\* lines 252-258 and the handler of line 383: build_inspection_dict is
\* called with the keyword scope, which normalize.build_inspection_dict does
\* not take; after self.max_inspect_bytes and self.inspect_body are read the
\* call raises TypeError, and the outer handler answers 500 without
\* X-Request-ID. Lines 260-381 are never reached.
Inspect_forwarding(q, m) ==
    Respond([q EXCEPT !.trail = @ \o <<"build_inspection_dict", "evaluate",
                                       "forward_request">>],
            200, "", {"X-Request-ID"})

Inspect(q, m) ==
    Respond([q EXCEPT !.seen.max_inspect_bytes = @ \cup {m.max_inspect_bytes},
                      !.trail = Append(@, "build_inspection_dict")],
            500, "internal_error", {})

\* lines 213-230
ContentLengthTooLarge_never(content_length, max_body_bytes) == FALSE

ContentLengthTooLarge(content_length, max_body_bytes) ==
    content_length.kind = "int" /\ content_length.n > max_body_bytes

\* lines 209-250 up to the first read of the body stream
SizeCheck(q, m) ==
    IF q.method \notin BodyMethods THEN Inspect(q, m)
    ELSE IF q.content_length.kind = "absent"
    THEN [q EXCEPT !.pc = "read_body"]
    ELSE LET q1 == [q EXCEPT !.trail = Append(@, "content_length"),
                             !.seen.max_body_bytes =
                                 IF q.content_length.kind = "int"
                                 THEN @ \cup {m.max_body_bytes} ELSE @]
         IN  IF ContentLengthTooLarge(q.content_length, m.max_body_bytes)
             THEN Respond(q1, 413, "payload_too_large", {"X-Request-ID"})
             ELSE [q1 EXCEPT !.pc = "read_body"]

\* lines 196-207 and what follows them
AfterRateLimit_fallthrough(q, m) == SizeCheck(q, m)

AfterRateLimit(q, m) ==
    IF ~q.is_allowed
    THEN Respond(q, 429, "rate_limited", {"X-Request-ID"})
    ELSE SizeCheck(q, m)

Request(path, method, client, xff, content_length) ==
    [NewRequest EXCEPT !.path = path, !.method = method, !.client = client,
                       !.xff = xff, !.content_length = content_length]

RequestPool ==
    {Request(<<"/">>, "POST", V4(2), <<>>, Length(3)),
     Request(<<"/", "a">>, "GET", V4(1), <<V4(2)>>, NoLength),
     Request(<<"/", "a">>, "POST", V4(2), <<>>, Length(3)),
     Request(<<"/", "a">>, "POST", V4(2), <<>>, Length(2)),
     Request(<<"/", "a">>, "POST", V4(2), <<>>, BadLength),
     Request(<<"/", "a">>, "POST", V4(2), <<>>, NoLength)}

\* lines 181-184: the test for the internal endpoints, answered by the app
bypasses_nothing(path) == FALSE

bypasses(path) == path \in INTERNAL_PATHS

\* lines 173-207: the handler runs without suspension up to its first
\* response or its first read of the body (the limiter's lock is never held
\* across an await, so acquiring it does not suspend)
Arrive(r) ==
    /\ req[r].pc = "new"
    /\ \A i \in 1 .. (r - 1) : req[i].pc # "new"
    /\ \E q0 \in RequestPool, err \in RoundingErrors :
          IF bypasses(q0.path)
          THEN /\ req' = [req EXCEPT ![r] = Respond(q0, 200, "", {})]
               /\ UNCHANGED <<mw, metrics>>
          ELSE LET ip == get_client_ip(q0.client, q0.xff, mw.trusted_proxies)
                   res == is_allowed(mw.rate_limiter, ip, 0, now, err)
                   q1 == [q0 EXCEPT
                             !.client_ip = ip,
                             !.is_allowed = res.ok,
                             !.seen.trusted_proxies = {mw.trusted_proxies},
                             !.trail = <<"get_client_ip", "is_allowed">>]
               IN  /\ req' = [req EXCEPT ![r] = AfterRateLimit(q1, mw)]
                   /\ mw' = [mw EXCEPT !.rate_limiter = res.rl]
                   /\ metrics' = IF res.ok THEN metrics
                                 ELSE inc(metrics, "rate_limited_requests_total")
    /\ UNCHANGED <<now, engine, call, poller>>

\* lines 235-247: one chunk of the body arrives
ChunkSizes == {2}
ReadChunk(r) ==
    /\ req[r].pc = "read_body"
    /\ req[r].chunks < MaxChunks
    /\ \E n \in ChunkSizes :
          LET q1 == [req[r] EXCEPT
                        !.body_len = @ + n, !.chunks = @ + 1,
                        !.seen.max_body_bytes = @ \cup {mw.max_body_bytes},
                        !.trail = Append(@, "read_chunk")]
          IN  req' = [req EXCEPT ![r] =
                         IF q1.body_len > mw.max_body_bytes
                         THEN Respond(q1, 413, "payload_too_large",
                                      {"X-Request-ID"})
                         ELSE q1]
    /\ UNCHANGED <<mw, now, engine, call, poller, metrics>>

\* the body stream ends: the handler goes on to line 252
EndOfBody(r) ==
    /\ req[r].pc = "read_body"
    /\ req' = [req EXCEPT ![r] = Inspect(req[r], mw)]
    /\ UNCHANGED <<mw, now, engine, call, poller, metrics>>

\* lines 248-250: reading the body raises; body_bytes = b'' and the handler
\* goes on to line 252
BodyReadFails(r) ==
    /\ req[r].pc = "read_body"
    /\ req' = [req EXCEPT ![r] =
                  Inspect([req[r] EXCEPT !.body_len = 0,
                                         !.trail = Append(@, "read_failed")],
                          mw)]
    /\ UNCHANGED <<mw, now, engine, call, poller, metrics>>

Reload ==
    /\ \E c \in ReloadCandidates :
          mw' = reload_config(mw, c.config, c.version_hash)
    /\ UNCHANGED <<now, req, engine, call, poller, metrics>>

Tick ==
    /\ now < MaxTime
    /\ now' = now + TickSeconds
    /\ UNCHANGED <<mw, req, engine, call, poller, metrics>>

Init ==
    /\ mw = _initialize_components(ConfigA)
    /\ now = 0
    /\ req = [r \in 1 .. MaxReq |-> NewRequest]
    /\ engine = IdleEngine
    /\ call = NoCall
    /\ poller = IdlePoller
    /\ metrics = ZeroMetrics

Next ==
    \/ \E r \in 1 .. MaxReq : Arrive(r)
    \/ \E r \in 1 .. MaxReq : ReadChunk(r)
    \/ \E r \in 1 .. MaxReq : EndOfBody(r)
    \/ \E r \in 1 .. MaxReq : BodyReadFails(r)
    \/ Reload
    \/ Tick

Spec == Init /\ [][Next]_vars

\* ------------------------------------------------ claims on the pipeline

Handled(q) == q.pc # "new" /\ q.path \notin INTERNAL_PATHS
LaterSteps ==
    {"content_length", "read_chunk", "read_failed", "build_inspection_dict"}

\* C7: for every non-bypass request the rate limiter is consulted before any
\* other step of the pipeline; when is_allowed returned false the response is
\* 429 with error 'rate_limited' and X-Request-ID, no body chunk was read and
\* the handler made no further call for that request (no size check, no
\* inspection, no engine, no router, no upstream).
C7_RateLimiterFirst ==
    \A r \in 1 .. MaxReq :
        Handled(req[r]) =>
            LET q == req[r]
            IN  /\ \E i \in DOMAIN q.trail :
                      /\ q.trail[i] = "is_allowed"
                      /\ \A j \in 1 .. (i - 1) : q.trail[j] \notin LaterSteps
                /\ ~q.is_allowed =>
                      /\ q.pc = "done"
                      /\ q.status = 429
                      /\ q.error = "rate_limited"
                      /\ "X-Request-ID" \in q.headers
                      /\ q.chunks = 0
                      /\ Last(q.trail) = "is_allowed"

C7_Witness ==
    \E r \in 1 .. MaxReq :
        /\ Handled(req[r])
        /\ ~req[r].is_allowed
        /\ req[r].status = 429
        /\ req[r].method = "POST"

\* what the size check owes a request at the step where the declared
\* Content-Length (on arrival) or the running length (on a chunk) is compared
\* with the max_body_bytes in force
SizeCheckHolds(q, q2, limit) ==
    /\ (/\ q.pc = "new"
        /\ q2.content_length.kind = "int"
        /\ q2.content_length.n > limit)
       => (/\ q2.pc = "done"
           /\ q2.status = 413
           /\ q2.chunks = 0
           /\ Last(q2.trail) = "content_length")
    /\ (/\ q.pc = "read_body"
        /\ q2.chunks > q.chunks
        /\ q2.body_len > limit)
       => (/\ q2.pc = "done"
           /\ q2.status = 413
           /\ Last(q2.trail) = "read_chunk")

\* C8 as stated: for a POST, PUT or PATCH request, a declared Content-Length
\* or a running body length above max_body_bytes gives 413, the handler does
\* nothing more for the request, and the Content-Length case reads no chunk.
C8_OversizeGives413 ==
    [][\A r \in 1 .. MaxReq :
          (req'[r].pc # "new" /\ req'[r].method \in BodyMethods)
              => SizeCheckHolds(req[r], req'[r], mw.max_body_bytes)]_vars

\* C8 amended: the same, for a request that is not on a bypass path and that
\* the rate limiter allowed.
C8_OversizeGives413WhenAdmitted ==
    [][\A r \in 1 .. MaxReq :
          (/\ Handled(req'[r])
           /\ req'[r].is_allowed
           /\ req'[r].method \in BodyMethods)
              => SizeCheckHolds(req[r], req'[r], mw.max_body_bytes)]_vars

C8_Witness ==
    /\ \E r \in 1 .. MaxReq :
          /\ req[r].status = 413
          /\ req[r].content_length.kind = "int"
          /\ req[r].chunks = 0
    /\ \E r \in 1 .. MaxReq :
          /\ req[r].status = 413
          /\ req[r].chunks > 0

\* ------------------------------------------------------- waf/normalize.py
\* A text is a sequence of characters. "%2e", "%252e" and "%25252e" are '.'
\* percent-encoded once, twice and three times, "%2f" is '/' encoded once,
\* "%00" the encoded null byte "NUL"; such an escape is one element of the
\* sequence.

unquote_char(c) ==
    CASE c = "%2e" -> "."
      [] c = "%252e" -> "%2e"
      [] c = "%25252e" -> "%252e"
      [] c = "%2f" -> "/"
      [] c = "%00" -> "NUL"
      [] OTHER -> c

\* urllib.parse.unquote: one pass of percent-decoding
unquote(text) == [i \in DOMAIN text |-> unquote_char(text[i])]

_multi_urldecode_once(text, times) == unquote(text)

RECURSIVE _multi_urldecode(_, _)
_multi_urldecode(text, times) ==
    IF times = 0 THEN text ELSE _multi_urldecode(unquote(text), times - 1)

DecodePasses == 2

IsNotNul(c) == c # "NUL"

\* lines 111-136
decode_path(path) ==
    LET decoded == _multi_urldecode(path, DecodePasses)
        slashed == [i \in DOMAIN decoded |->
                       IF decoded[i] = "\\" THEN "/" ELSE decoded[i]]
        p == SelectSeq(slashed, IsNotNul)
    IN  IF p # <<>> /\ Head(p) = "/" THEN p ELSE <<"/">> \o p

\* text.split('/') from position i on, cur being the component read so far
RECURSIVE Split(_, _, _)
Split(text, i, cur) ==
    IF i > Len(text) THEN <<cur>>
    ELSE IF text[i] = "/" THEN <<cur>> \o Split(text, i + 1, <<>>)
    ELSE Split(text, i + 1, Append(cur, text[i]))

\* the loop of posixpath.normpath over the components
RECURSIVE Resolve(_, _, _, _)
Resolve(comps, i, new_comps, initial_slashes) ==
    IF i > Len(comps) THEN new_comps
    ELSE LET comp == comps[i]
         IN  IF comp = <<>> \/ comp = <<".">>
             THEN Resolve(comps, i + 1, new_comps, initial_slashes)
             ELSE IF \/ comp # <<".", ".">>
                     \/ (initial_slashes = 0 /\ new_comps = <<>>)
                     \/ (new_comps # <<>> /\ Last(new_comps) = <<".", ".">>)
             THEN Resolve(comps, i + 1, Append(new_comps, comp),
                          initial_slashes)
             ELSE IF new_comps # <<>>
             THEN Resolve(comps, i + 1, Front(new_comps), initial_slashes)
             ELSE Resolve(comps, i + 1, new_comps, initial_slashes)

\* '/'.join(comps)
RECURSIVE Join(_)
Join(comps) ==
    IF comps = <<>> THEN <<>>
    ELSE IF Len(comps) = 1 THEN comps[1]
    ELSE comps[1] \o <<"/">> \o Join(Tail(comps))

\* posixpath.normpath
normpath(path) ==
    LET starts(n) == Len(path) >= n /\ \A i \in 1 .. n : path[i] = "/"
        initial_slashes == IF ~starts(1) THEN 0
                           ELSE IF starts(2) /\ ~starts(3) THEN 2 ELSE 1
        joined == Join(Resolve(Split(path, 1, <<>>), 1, <<>>, initial_slashes))
        result == [i \in 1 .. initial_slashes |-> "/"] \o joined
    IN  IF result = <<>> THEN <<".">> ELSE result

\* lines 139-159
canonicalize_path(decoded_path) ==
    LET p == normpath(decoded_path)
    IN  IF p # <<>> /\ Head(p) = "/" THEN p ELSE <<"/">> \o p

\* lines 177-192
normalize_query(query_string) ==
    SelectSeq(_multi_urldecode(query_string, DecodePasses), IsNotNul)

\* lines 213-253, for a request with a path and, if it has one, a query
build_inspection_dict(q, max_inspect_bytes) ==
    LET path_raw == decode_path(q.path)
    IN  [path_raw |-> Truncate(path_raw, max_inspect_bytes),
         path |-> Truncate(canonicalize_path(path_raw), max_inspect_bytes),
         query |-> IF "query" \in DOMAIN q
                   THEN Truncate(normalize_query(q.query), max_inspect_bytes)
                   ELSE <<>>]

Inspected(q) ==
    q.pc = "done" /\ Last(q.trail) = "build_inspection_dict"

\* C9: when the engine's verdict for a request is BLOCK (the request passed
\* the rate limiter and the size check, and evaluating its inspection
\* dictionary with the engine in force gives BLOCK), the response is 403.
C9_BlockGives403 ==
    [][\A r \in 1 .. MaxReq :
          (/\ req[r].pc # "done"
           /\ Inspected(req'[r])
           /\ evaluate(mw.security_engine,
                       build_inspection_dict(req'[r], mw.max_inspect_bytes),
                       req'[r].client_ip).verdict = "BLOCK")
              => req'[r].status = 403]_vars

\* the settings a request would read from one configuration
Snapshot(config) ==
    [trusted_proxies |-> config.trusted_proxies,
     max_body_bytes |-> config.waf_settings.max_body_bytes,
     max_inspect_bytes |-> config.waf_settings.max_inspect_bytes]

\* C10: a request never observes a mixture of two configurations: all the
\* settings one request has read come from one configuration.
C10_NoMixedSnapshot ==
    \A r \in 1 .. MaxReq :
        \E config \in {ConfigA, ConfigB} :
            /\ req[r].seen.trusted_proxies \subseteq
                   {Snapshot(config).trusted_proxies}
            /\ req[r].seen.max_body_bytes \subseteq
                   {Snapshot(config).max_body_bytes}
            /\ req[r].seen.max_inspect_bytes \subseteq
                   {Snapshot(config).max_inspect_bytes}

\* ---------------------------------------------- the rate limiter on its own
\* LimiterSpec: a RateLimiter built from the rate_limits of a config, timed
\* is_allowed calls from a few keys, sweeps, and the clock. call logs the
\* is_allowed calls in order and counts the buckets sweeps removed.

MaxCalls == 4            \* is_allowed calls of a run
LimiterMaxTime == 40     \* the clock of LimiterSpec stops here
LimiterTickSeconds == 10 \* seconds that pass in one step of that clock

\* requests_per_minute is an unconstrained int (models.py line 36)
RpmPool == {0 - 1, 0, 2, 3}
RateLimitsPool ==
    {NoneVal} \cup {[requests_per_minute |-> n] : n \in RpmPool}
KeyPool == {V4(1), V4(2)}
TtlPool == {20}

\* cleanup_old_buckets, lines 93-100
cleanup_old_buckets(rl, ttl_seconds, t) ==
    [rl EXCEPT !.buckets =
        [k \in {x \in DOMAIN rl.buckets :
                  ~(t - rl.buckets[x].last_refill > ttl_seconds)} |->
            rl.buckets[k]]]

LimiterInit ==
    /\ \E rate_limits \in RateLimitsPool :
          mw = [rate_limiter |->
                  RateLimiter(default_rpm_of([rate_limits |-> rate_limits]))]
    /\ now = 0
    /\ call = [fn |-> "is_allowed", calls |-> <<>>, removed |-> 0]
    /\ req = <<>> /\ engine = IdleEngine
    /\ poller = IdlePoller /\ metrics = ZeroMetrics

IsAllowedCall ==
    /\ Len(call.calls) < MaxCalls
    /\ \E key \in KeyPool, err \in RoundingErrors :
          LET res == is_allowed(mw.rate_limiter, key, 0, now, err)
          IN  /\ mw' = [mw EXCEPT !.rate_limiter = res.rl]
              /\ call' = [call EXCEPT !.calls =
                             Append(@, [key |-> key, t |-> now, ok |-> res.ok])]
    /\ UNCHANGED <<now, req, engine, poller, metrics>>

CleanupCall ==
    /\ \E ttl_seconds \in TtlPool :
          LET swept == cleanup_old_buckets(mw.rate_limiter, ttl_seconds, now)
          IN  /\ mw' = [mw EXCEPT !.rate_limiter = swept]
              /\ call' = [call EXCEPT !.removed =
                             @ + Cardinality(DOMAIN mw.rate_limiter.buckets)
                               - Cardinality(DOMAIN swept.buckets)]
    /\ UNCHANGED <<now, req, engine, poller, metrics>>

LimiterTick ==
    /\ now < LimiterMaxTime
    /\ now' = now + LimiterTickSeconds
    /\ UNCHANGED <<mw, req, engine, call, poller, metrics>>

LimiterNext == IsAllowedCall \/ CleanupCall \/ LimiterTick
LimiterSpec == LimiterInit /\ [][LimiterNext]_vars

\* C14: every bucket of the limiter's map has 0 <= tokens <= capacity, after
\* any sequence of is_allowed and cleanup_old_buckets calls and for every
\* requests_per_minute a Config accepts.
C14_TokensWithinCapacity ==
    \A k \in DOMAIN mw.rate_limiter.buckets :
        LET bucket == mw.rate_limiter.buckets[k]
        IN  0 <= bucket.tokens /\ bucket.tokens <= TokenUnit * bucket.capacity

\* the calls made with one key, in order
RECURSIVE CallsOf(_, _)
CallsOf(calls, key) ==
    IF calls = <<>> THEN <<>>
    ELSE IF Head(calls).key = key
         THEN <<Head(calls)>> \o CallsOf(Tail(calls), key)
         ELSE CallsOf(Tail(calls), key)

AllowedBefore(h, i) == Cardinality({j \in 1 .. (i - 1) : h[j].ok})

\* C15: while no bucket has been swept, for a limiter of capacity c >= 1 and
\* every key: the first c calls are allowed; a further call less than 60/c
\* seconds after the first is denied; a call at least 60/c seconds after the
\* first, with exactly c calls allowed before it, is allowed.
C15_BurstThenRefill ==
    LET c == mw.rate_limiter.default_rpm
    IN  (c >= 1 /\ call.removed = 0) =>
            \A key \in KeyPool :
                LET h == CallsOf(call.calls, key)
                IN  \A i \in DOMAIN h :
                        /\ i <= c => h[i].ok
                        /\ (i > c /\ c * (h[i].t - h[1].t) < SecondsPerMinute)
                               => ~h[i].ok
                        /\ (/\ c * (h[i].t - h[1].t) >= SecondsPerMinute
                            /\ AllowedBefore(h, i) = c)
                               => h[i].ok

\* ------------------------------------------------ poll_control_plane_config
\* PollSpec: the middleware started from ConfigA and the poll loop, one action
\* per iteration, against every answer of the control plane.

MaxPolls == 3            \* iterations of the poll loop in a run

InvalidBody == [invalid |-> TRUE]      \* Config(**config_data) raises
EtagPool == {"", "v1", "v2"}
ControlPlaneResponses ==
    {Response(200, body, etag) :
        body \in {ConfigA, ConfigB, ConfigC, InvalidBody}, etag \in EtagPool}
    \cup {Response(status, 0, "") : status \in {304, 401, 404, 500}}
    \cup {GetRaised("TimeoutException"), GetRaised("RequestError")}

\* reload_config, lines 146-162: after the swap the import of
\* waf_config_version_info, waf_config_reload_success_total and
\* waf_config_last_reload_timestamp_seconds fails, metrics.py defining none
\* of them; the handler of line 158 then fails to import
\* waf_config_reload_failure_total. Every call ends in ImportError, whatever
\* happened before (the AttributeError of line 137 included).
reload_config_raises(new_config, version_hash) == "ImportError"

\* an iteration that replaces the rate limiter whatever the answer
poll_iteration_rebuilding(m, p, response) ==
    [mw |-> [m EXCEPT !.rate_limiter = RateLimiter(DefaultRpm)],
     poller |-> [p EXCEPT !.if_none_match = p.last_etag,
                          !.response = response,
                          !.caught = response.raised,
                          !.polls = @ + 1]]

\* one iteration of the loop, lines 59-100
poll_iteration(m, p, response) ==
    LET sent == [p EXCEPT !.if_none_match = p.last_etag,
                          !.response = response,
                          !.caught = response.raised,
                          !.polls = @ + 1]
    IN  IF response.raised # "" \/ response.status # 200
        THEN [mw |-> m, poller |-> sent]
        ELSE IF response.body = InvalidBody
        THEN [mw |-> m, poller |-> [sent EXCEPT !.caught = "ValidationError"]]
        ELSE LET exc == reload_config_raises(response.body, response.etag)
             IN  [mw |-> reload_config(m, response.body, response.etag),
                  poller |-> IF exc = ""
                             THEN [sent EXCEPT !.last_etag = response.etag]
                             ELSE [sent EXCEPT !.caught = exc]]

PollInit ==
    /\ mw = _initialize_components(ConfigA)
    /\ poller = IdlePoller
    /\ metrics = ZeroMetrics
    /\ now = 0 /\ req = <<>> /\ engine = IdleEngine /\ call = NoCall

Poll ==
    /\ poller.polls < MaxPolls
    /\ \E response \in ControlPlaneResponses :
          LET out == poll_iteration(mw, poller, response)
          IN  mw' = out.mw /\ poller' = out.poller
    /\ UNCHANGED <<now, req, engine, call, metrics>>

PollNext == Poll
PollSpec == PollInit /\ [][PollNext]_vars

Polled == poller'.polls = poller.polls + 1
CounterOf(registry, name) ==
    IF name \in DOMAIN registry THEN registry[name] ELSE 0
Incremented(name) == CounterOf(metrics', name) = CounterOf(metrics, name) + 1

\* C11: a poll answered 200 with a config that validates replaces the live
\* config, engine, router and rate limiter by ones built from that config,
\* increments waf_config_reload_success_total once and remembers the ETag
\* (which the next poll sends as If-None-Match).
C11_ValidPollReloads ==
    [][(/\ Polled
        /\ poller'.response.status = 200
        /\ poller'.response.body # InvalidBody)
          => (/\ mw'.config = poller'.response.body
              /\ mw'.security_engine = SecurityEngine(poller'.response.body)
              /\ mw'.router = Router(poller'.response.body.upstreams)
              /\ mw'.rate_limiter =
                     RateLimiter(default_rpm_of(poller'.response.body))
              /\ Incremented("waf_config_reload_success_total")
              /\ poller'.last_etag = poller'.response.etag)]_vars

\* C12: a poll that ends in a validation failure or in a status other than
\* 200 and 304 leaves the live middleware and the remembered ETag unchanged
\* and increments waf_config_reload_failure_total.
C12_FailedPollKeepsSnapshot ==
    [][(/\ Polled
        /\ poller'.response.raised = ""
        /\ \/ poller'.response.status \notin {200, 304}
           \/ poller'.response.body = InvalidBody)
          => (/\ mw' = mw
              /\ poller'.last_etag = poller.last_etag
              /\ Incremented("waf_config_reload_failure_total"))]_vars

\* C13: no partial reload: when reload_config raised, every field of the
\* middleware holds its value from before the call.
C13_NoPartialReload ==
    [][(Polled /\ poller'.caught = "ImportError") => mw' = mw]_vars

\* C24: a poll answered 304 changes nothing: the middleware (config,
\* components, limiter buckets, version), the remembered ETag and the
\* counters are what they were before the poll.
C24_NotModifiedChangesNothing ==
    [][(/\ Polled
        /\ poller'.response.raised = ""
        /\ poller'.response.status = 304)
          => (/\ mw' = mw
              /\ poller'.last_etag = poller.last_etag
              /\ metrics' = metrics)]_vars

\* a 304 answered after an earlier poll had put another config in place
C24_Witness ==
    /\ poller.polls >= 2
    /\ poller.response.raised = ""
    /\ poller.response.status = 304
    /\ mw.config # ConfigA
    /\ mw.current_config_version # ""

\* the live components were swapped to the config of the poll's response
SwappedTo ==
    /\ poller'.response.raised = ""
    /\ poller'.response.status = 200
    /\ poller'.response.body # InvalidBody
    /\ mw'.config = poller'.response.body
    /\ mw'.rate_limiter = RateLimiter(default_rpm_of(poller'.response.body))

\* C38: a poll swaps the live components to its response's config if and
\* only if that response's ETag becomes last_etag (otherwise the middleware
\* and last_etag stay as they were), and last_etag is unset exactly while the
\* file-loaded config is live.
C38_EtagTracksLiveSnapshot ==
    [][Polled =>
          /\ SwappedTo => poller'.last_etag = poller'.response.etag
          /\ ~SwappedTo => (mw' = mw /\ poller'.last_etag = poller.last_etag)
          /\ (poller'.last_etag = "") => (mw'.config = ConfigA)]_vars

\* ------------------------------------------------------- proxy/headers.py
\* A header name (or a token of a Connection value) is its lower-case text,
\* whether it is written with upper-case letters, and whether it is
\* surrounded by blanks. A headers dict is a function from names to values; a
\* value is a list of comma-separated tokens.

Name(text) == [text |-> text, upper |-> FALSE, padded |-> FALSE]
Upper(text) == [text |-> text, upper |-> TRUE, padded |-> FALSE]
Padded(n) == [n EXCEPT !.padded = TRUE]
lower(n) == [n EXCEPT !.upper = FALSE]
strip(n) == [n EXCEPT !.padded = FALSE]

HOP_BY_HOP_HEADERS ==
    {Name("connection"), Name("keep-alive"), Name("proxy-authenticate"),
     Name("proxy-authorization"), Name("te"), Name("trailer"),
     Name("transfer-encoding"), Name("upgrade")}
HEADERS_TO_REMOVE == HOP_BY_HOP_HEADERS \cup {Name("content-length")}

should_forward_header(header_name) ==
    lower(header_name) \notin HEADERS_TO_REMOVE

Elems(seq) == {seq[i] : i \in DOMAIN seq}

\* lines 56-62 / 90-96: headers.get('connection', '') looks the key up as
\* written
connection_tokens_of(headers) ==
    LET connection_header ==
            IF Name("connection") \in DOMAIN headers
            THEN headers[Name("connection")] ELSE <<>>
    IN  {lower(strip(token)) : token \in Elems(connection_header)}
            \ {Name("")}

filter_headers(headers) ==
    LET connection_tokens == connection_tokens_of(headers)
    IN  [key \in {k \in DOMAIN headers :
                    /\ should_forward_header(k)
                    /\ lower(k) \notin connection_tokens} |-> headers[key]]

filter_request_headers(headers) == filter_headers(headers)
filter_response_headers(headers) == filter_headers(headers)

\* HeaderSpec: the two filters applied to drawn dicts
OtherNamePool ==
    {Name("keep-alive"), Upper("te"), Upper("content-length"),
     Name("x-foo"), Upper("x-foo"), Name("host")}
ConnectionValuePool ==
    {<<>>, <<Name("close")>>, <<Name("x-foo")>>,
     <<Padded(Upper("x-foo")), Name("")>>, <<Name("keep-alive"), Name("host")>>}
HeaderDicts ==
    {[k \in others \cup conn |-> IF lower(k) = Name("connection")
                                  THEN value ELSE <<>>] :
        others \in SUBSET OtherNamePool,
        conn \in SUBSET {Name("connection"), Upper("connection")},
        value \in ConnectionValuePool}

HeaderInit ==
    /\ call \in [fn : {"filter_request_headers", "filter_response_headers"},
                  headers : HeaderDicts, done : {FALSE}, out : {<<>>}]
    /\ mw = IdleMw /\ now = 0 /\ req = <<>> /\ engine = IdleEngine
    /\ poller = IdlePoller /\ metrics = ZeroMetrics

FilterRequestHeadersCall ==
    /\ call.fn = "filter_request_headers" /\ ~call.done
    /\ call' = [call EXCEPT !.done = TRUE,
                            !.out = filter_request_headers(call.headers)]
    /\ UNCHANGED <<mw, now, req, engine, poller, metrics>>

FilterResponseHeadersCall ==
    /\ call.fn = "filter_response_headers" /\ ~call.done
    /\ call' = [call EXCEPT !.done = TRUE,
                            !.out = filter_response_headers(call.headers)]
    /\ UNCHANGED <<mw, now, req, engine, poller, metrics>>

HeaderNext == FilterRequestHeadersCall \/ FilterResponseHeadersCall
HeaderSpec == HeaderInit /\ [][HeaderNext]_vars

\* the tokens of every Connection header of a dict, whatever its case
AnyCaseConnectionTokens(headers) ==
    UNION {{lower(strip(token)) : token \in Elems(headers[k])} :
              k \in {x \in DOMAIN headers : lower(x) = Name("connection")}}

\* C16: the headers a filter returns hold no hop-by-hop header, no
\* content-length and no header named by a token of the Connection header,
\* whatever the case of the header names.
C16_NoHopByHopHeaders ==
    call.done =>
        \A k \in DOMAIN call.out :
            /\ lower(k) \notin HOP_BY_HOP_HEADERS
            /\ lower(k) # Name("content-length")
            /\ lower(k) \notin AnyCaseConnectionTokens(call.headers)

\* ------------------------------------- more claims on the pipeline (Spec)

\* C17: a request on a bypass path is handed to the local app without
\* touching the pipeline: the middleware (its limiter and buckets included)
\* and the counters are unchanged, no pipeline step is made for it (no client
\* IP, no limiter, no size check, no body read, no inspection), and it is
\* answered by the app.
C17_BypassTouchesNothing ==
    [][\A r \in 1 .. MaxReq :
          (/\ req[r].pc = "new"
           /\ req'[r].pc # "new"
           /\ req'[r].path \in INTERNAL_PATHS)
              => (/\ mw' = mw
                  /\ metrics' = metrics
                  /\ req'[r].pc = "done"
                  /\ req'[r].trail = <<>>
                  /\ req'[r].chunks = 0
                  /\ req'[r].seen = NothingSeen
                  /\ req'[r].status = 200)]_vars

\* a bypass request answered while its client's bucket holds less than one
\* token, with a declared body above max_body_bytes
C17_Witness ==
    \E r \in 1 .. MaxReq :
        /\ req[r].pc = "done"
        /\ req[r].path \in INTERNAL_PATHS
        /\ req[r].content_length.n > mw.max_body_bytes
        /\ req[r].client \in DOMAIN mw.rate_limiter.buckets
        /\ mw.rate_limiter.buckets[req[r].client].tokens < TokenUnit

WouldBe(q) ==
    evaluate(mw.security_engine,
             build_inspection_dict(q, mw.max_inspect_bytes), q.client_ip)

\* C18: a non-bypass request that passed the rate limit and the size check,
\* whose verdict is ALLOW or SUSPICIOUS and for which the router has an
\* upstream, is sent to that upstream.
C18_AllowedIsForwarded ==
    [][\A r \in 1 .. MaxReq :
          (/\ req[r].pc # "done"
           /\ Handled(req'[r])
           /\ Inspected(req'[r])
           /\ WouldBe(req'[r]).verdict \in {"ALLOW", "SUSPICIOUS"}
           /\ mw.router.upstreams # <<>>)
              => "forward_request" \in Elems(req'[r].trail)]_vars

\* C19: the response to a request the engine gave a verdict for (blocked,
\* forwarded, no_upstream or upstream_error) carries X-WAF-Decision,
\* X-WAF-Score and X-Request-ID.
C19_DecisionHeaders ==
    [][\A r \in 1 .. MaxReq :
          (/\ req[r].pc # "done"
           /\ Handled(req'[r])
           /\ Inspected(req'[r])
           /\ WouldBe(req'[r]).exc = "none")
              => {"X-WAF-Decision", "X-WAF-Score", "X-Request-ID"}
                     \subseteq req'[r].headers]_vars

\* C20: every response of the pipeline to a non-bypass request carries an
\* X-Request-ID header.
C20_RequestIdOnEveryResponse ==
    \A r \in 1 .. MaxReq :
        (Handled(req[r]) /\ req[r].pc = "done")
            => "X-Request-ID" \in req[r].headers

MaxUpstreams == 2    \* upstreams of a router

UpstreamConfig(url, hosts, path_prefixes, weight) ==
    [url |-> url, hosts |-> hosts, path_prefixes |-> path_prefixes,
     weight |-> weight]

Url(url) == [none |-> FALSE, url |-> url]
NoUrl == [none |-> TRUE, url |-> ""]

startswith(text, prefix) ==
    Len(prefix) <= Len(text) /\ SubSeq(text, 1, Len(prefix)) = prefix

\* lines 58-63: the first upstream whose hosts hold request_host, 0 if none
RECURSIVE host_match(_, _, _)
host_match(upstreams, i, request_host) ==
    IF i > Len(upstreams) THEN 0
    ELSE IF /\ upstreams[i].hosts # <<>>
            /\ request_host \in {lower(h) : h \in Elems(upstreams[i].hosts)}
         THEN i
         ELSE host_match(upstreams, i + 1, request_host)

\* lines 72-75, the inner loop over the prefixes of upstream i
RECURSIVE scan_prefixes(_, _, _, _, _)
scan_prefixes(prefixes, j, request_path, i, best) ==
    IF j > Len(prefixes) THEN best
    ELSE scan_prefixes(prefixes, j + 1, request_path, i,
             IF /\ startswith(request_path, prefixes[j])
                /\ Len(prefixes[j]) > best.best_prefix_len
             THEN [best_match |-> i, best_prefix_len |-> Len(prefixes[j])]
             ELSE best)

\* lines 66-75, the outer loop; best_match 0 is None
RECURSIVE scan_upstreams(_, _, _, _)
scan_upstreams(upstreams, i, request_path, best) ==
    IF i > Len(upstreams) THEN best
    ELSE scan_upstreams(upstreams, i + 1, request_path,
             scan_prefixes(upstreams[i].path_prefixes, 1, request_path, i,
                           best))

IsValidWeight(upstream) == upstream.weight > 0

\* lines 88-113; rnd stands for the draw of random.choices, which can give
\* any upstream of valid_upstreams (their weights are positive)
_select_by_weight(rt, rnd) ==
    LET valid_upstreams == SelectSeq(rt.upstreams, IsValidWeight)
    IN  IF valid_upstreams = <<>> THEN rt.upstreams[1]
        ELSE valid_upstreams[(rnd % Len(valid_upstreams)) + 1]

\* lines 35-86; request.headers.get('host', '') is '' without a Host header
get_upstream(rt, host, path, rnd) ==
    IF rt.upstreams = <<>> THEN NoUrl
    ELSE LET request_host == lower(host)
             by_host == host_match(rt.upstreams, 1, request_host)
             best == scan_upstreams(rt.upstreams, 1, path,
                                    [best_match |-> 0, best_prefix_len |-> 0])
         IN  IF by_host # 0 THEN Url(rt.upstreams[by_host].url)
             ELSE IF best.best_match # 0
             THEN Url(rt.upstreams[best.best_match].url)
             ELSE Url(_select_by_weight(rt, rnd).url)

\* waf_middleware.py line 321, 'if not upstream_url': None and '' are falsy
no_upstream(upstream_url) == upstream_url.none \/ upstream_url.url = ""

\* RouterSpec: get_upstream applied to drawn routers and requests
UpstreamPool ==
    {UpstreamConfig("u1", <<>>, <<>>, 1),
     UpstreamConfig("u2", <<>>, <<>>, 0),
     UpstreamConfig("u3", <<>>, <<>>, 0 - 1),
     UpstreamConfig("u4", <<Upper("a.com")>>, <<>>, 1),
     UpstreamConfig("u5", <<Name("b.com"), Name("a.com")>>, <<<<"/", "a">>>>, 2),
     UpstreamConfig("u6", <<>>, <<<<"/">>, <<"/", "a">>>>, 1),
     UpstreamConfig("u7", <<>>, <<<<"/", "a">>>>, 0),
     UpstreamConfig("u8", <<>>, <<<<>>>>, 1),
     UpstreamConfig("", <<>>, <<>>, 2)}
HostPool == {Name(""), Name("a.com"), Upper("a.com"), Name("c.com")}
PathPool == {<<"/">>, <<"/", "a">>, <<"/", "b">>}

RouterInit ==
    /\ \E upstreams \in SeqsUpTo(UpstreamPool, MaxUpstreams) :
          mw = [router |-> Router(upstreams)]
    /\ call \in [fn : {"get_upstream"}, host : HostPool, path : PathPool,
                  done : {FALSE}, out : {NoUrl}]
    /\ now = 0 /\ req = <<>> /\ engine = IdleEngine
    /\ poller = IdlePoller /\ metrics = ZeroMetrics

GetUpstreamCall ==
    /\ call.fn = "get_upstream" /\ ~call.done
    /\ \E rnd \in 0 .. MaxUpstreams - 1 :
          call' = [call EXCEPT !.done = TRUE,
                      !.out = get_upstream(mw.router, call.host, call.path,
                                           rnd)]
    /\ UNCHANGED <<mw, now, req, engine, poller, metrics>>

RouterNext == GetUpstreamCall
RouterSpec == RouterInit /\ [][RouterNext]_vars

\* ------------------------------------------------- claims on the router

HostOwners(upstreams, host) ==
    {i \in DOMAIN upstreams :
        lower(host) \in {lower(h) : h \in Elems(upstreams[i].hosts)}}
\* the lengths of the prefixes of upstream i that are a prefix of path
PrefixLengths(upstreams, i, path) ==
    {Len(upstreams[i].path_prefixes[j]) :
        j \in {k \in DOMAIN upstreams[i].path_prefixes :
                  startswith(path, upstreams[i].path_prefixes[k])}}
PrefixOwners(upstreams, path) ==
    {i \in DOMAIN upstreams : PrefixLengths(upstreams, i, path) # {}}
Longest(upstreams, i, path) ==
    CHOOSE n \in PrefixLengths(upstreams, i, path) :
        \A m \in PrefixLengths(upstreams, i, path) : m <= n
LeastOf(S) == CHOOSE i \in S : \A k \in S : i <= k
\* the earliest declared among the owners of the longest matching prefix
LongestPrefixOwner(upstreams, path) ==
    LeastOf({i \in PrefixOwners(upstreams, path) :
                \A k \in PrefixOwners(upstreams, path) :
                    Longest(upstreams, k, path) <= Longest(upstreams, i, path)})
WeightedChoices(upstreams) ==
    IF \E i \in DOMAIN upstreams : upstreams[i].weight > 0
    THEN {i \in DOMAIN upstreams : upstreams[i].weight > 0}
    ELSE {1}

\* C21: get_upstream applies a strict priority: the first upstream whose
\* hosts hold the request Host (case-insensitive); otherwise the upstream
\* owning the longest path prefix that is a prefix of the request path,
\* ties to the earliest declared; only otherwise the weighted choice.
C21_RoutingPriority ==
    (call.fn = "get_upstream" /\ call.done /\ mw.router.upstreams # <<>>) =>
        LET upstreams == mw.router.upstreams
            hosts == HostOwners(upstreams, call.host)
        IN  IF hosts # {}
            THEN call.out = Url(upstreams[LeastOf(hosts)].url)
            ELSE IF PrefixOwners(upstreams, call.path) # {}
            THEN call.out =
                     Url(upstreams[LongestPrefixOwner(upstreams, call.path)].url)
            ELSE \E i \in WeightedChoices(upstreams) :
                     call.out = Url(upstreams[i].url)

\* C22: the pipeline's no_upstream answer (get_upstream's result is falsy)
\* is given if and only if the upstream list is empty; the weighted
\* fallback never chooses a weight <= 0 while some weight is positive, and
\* returns the first upstream when all weights are <= 0.
C22_NoUpstreamOnlyWhenEmpty ==
    (call.fn = "get_upstream" /\ call.done) =>
        LET upstreams == mw.router.upstreams
        IN  /\ no_upstream(call.out) <=> upstreams = <<>>
            /\ (/\ upstreams # <<>>
                /\ HostOwners(upstreams, call.host) = {}
                /\ scan_upstreams(upstreams, 1, call.path,
                       [best_match |-> 0, best_prefix_len |-> 0]).best_match = 0)
                   => \E i \in WeightedChoices(upstreams) :
                          call.out = Url(upstreams[i].url)

\* ------------------------------------------------- models.py and config.py
\* Config(**data) raises ValueError (a pydantic ValidationError) or gives the
\* config. The validators of models.py: UpstreamConfig.weight_positive,
\* WAFSettingsConfig.mode_valid and the IP-list checks of Config.__init__;
\* thresholds, the byte limits and the url have none.

weight_positive(v) == ~(v <= 0)
mode_valid(v) == v \in {"monitor", "block"}

\* a trusted_proxies text that ipaddress.ip_network rejects (ValueError)
BadCidr == Cidr(0 - 1, 0, 0)

ConfigAccepts_lists_unchecked(data) ==
    /\ \A i \in DOMAIN data.upstreams :
          weight_positive(data.upstreams[i].weight)
    /\ IsNone(data.waf_settings) \/ mode_valid(data.waf_settings.mode)

\* Config(**data): the field validators, then lines 83-113 of __init__
ConfigAccepts(data) ==
    /\ \A i \in DOMAIN data.upstreams :
          weight_positive(data.upstreams[i].weight)
    /\ IsNone(data.waf_settings) \/ mode_valid(data.waf_settings.mode)
    /\ \A i \in DOMAIN data.trusted_proxies :
          data.trusted_proxies[i] # BadCidr
    /\ \A i \in DOMAIN data.ip_allowlist : data.ip_allowlist[i].kind # "bad"
    /\ \A i \in DOMAIN data.ip_blocklist : data.ip_blocklist[i].kind # "bad"

\* ConfigSpec: a file is loaded at startup (load_config, then
\* WAFMiddleware.__init__), then the control plane serves one candidate
\* (Config(**config_data), then reload_config)
CandidateUpstreams ==
    {UpstreamConfig("u1", <<>>, <<>>, 1), UpstreamConfig("", <<>>, <<>>, 1),
     UpstreamConfig("u2", <<>>, <<>>, 0)}
CandidateSettings ==
    {NoneVal, WafSettings("block", 1, 2, FALSE),
     WafSettings("monitor", 2, 1, FALSE), WafSettings("off", 1, 2, FALSE)}
CandidateRules ==
    {<<>>, <<Rule("R6", "path", BadPattern, 10, TRUE), PathRule>>,
     <<Rule("R7", "path", HugePattern, 10, TRUE), PathRule>>}
CandidateIpLists ==
    {<<>>, <<IpEntry(V4(1))>>, <<BadEntry>>, <<NetEntry(0, 0, 1), BadEntry>>}
CandidateTrusted ==
    {<<>>, <<Cidr(0, 0, 1)>>, <<BadCidr>>, <<Cidr(0, 0, 1), BadCidr>>}
ListCandidates ==
    {Config(<<UpstreamConfig("u1", <<>>, <<>>, 1)>>, al, bl, tp, <<>>,
            NoneVal, 1, WafSettings("block", 1, 2, FALSE)) :
        al \in CandidateIpLists, bl \in CandidateIpLists,
        tp \in CandidateTrusted}
ConfigCandidates ==
    {Config(ups, <<>>, <<>>, <<>>, rules, th, 1, ws) :
        ups \in SeqsUpTo(CandidateUpstreams, MaxUpstreams),
        rules \in CandidateRules, th \in ThresholdsPool,
        ws \in CandidateSettings}
    \cup ListCandidates

ConfigInit ==
    /\ call \in [fn : {"load_config"}, data : ConfigCandidates,
                  done : {FALSE}, out : {"pending"}]
    /\ mw = IdleMw /\ now = 0 /\ req = <<>> /\ engine = IdleEngine
    /\ poller = IdlePoller /\ metrics = ZeroMetrics

\* config.py lines 38-45, main.py lines 23 and 175: a rejected file, one whose
\* engine cannot be built, or one without waf_settings (waf_cfg.get raises
\* AttributeError) starts no middleware
LoadConfigCall ==
    /\ call.fn = "load_config" /\ ~call.done
    /\ IF ~ConfigAccepts(call.data)
       THEN call' = [call EXCEPT !.done = TRUE, !.out = "ValueError"]
            /\ mw' = mw
       ELSE IF SecurityEngine_raises(call.data) # ""
       THEN call' = [call EXCEPT !.done = TRUE,
                                 !.out = SecurityEngine_raises(call.data)]
            /\ mw' = mw
       ELSE IF IsNone(call.data.waf_settings)
       THEN call' = [call EXCEPT !.done = TRUE, !.out = "AttributeError"]
            /\ mw' = mw
       ELSE call' = [call EXCEPT !.done = TRUE, !.out = "live"]
            /\ mw' = _initialize_components(call.data)
    /\ UNCHANGED <<now, req, engine, poller, metrics>>

\* main.py lines 71-84 for a 200 answer
ReloadConfigCall ==
    /\ call.fn = "load_config" /\ call.done /\ call.out = "live"
    /\ \E data \in ConfigCandidates :
          IF ConfigAccepts(data)
          THEN /\ call' = [fn |-> "reload_config", data |-> data,
                           done |-> TRUE,
                           out |-> reload_config_raises(data, "v1")]
               /\ mw' = reload_config(mw, data, "v1")
          ELSE /\ call' = [fn |-> "reload_config", data |-> data,
                           done |-> TRUE, out |-> "ValueError"]
               /\ mw' = mw
    /\ UNCHANGED <<now, req, engine, poller, metrics>>

ConfigNext == LoadConfigCall \/ ReloadConfigCall
ConfigSpec == ConfigInit /\ [][ConfigNext]_vars

\* C25: every snapshot that is live (after the file load or after a reload)
\* has allow <= challenge < block, max_inspect_bytes <= max_body_bytes, a
\* mode in {monitor, block}, no empty upstream url and no upstream weight
\* below 1; a candidate that fails one of these is rejected and not published.
C25_LiveSnapshotInvariants ==
    (mw # IdleMw) =>
        /\ mw.security_engine.allow_threshold
               <= mw.security_engine.challenge_threshold
        /\ mw.security_engine.challenge_threshold
               < mw.security_engine.block_threshold
        /\ mw.max_inspect_bytes <= mw.max_body_bytes
        /\ mw.security_engine.mode \in {"monitor", "block"}
        /\ \A i \in DOMAIN mw.config.upstreams :
              /\ mw.config.upstreams[i].url # ""
              /\ mw.config.upstreams[i].weight >= 1

\* the rules of a config whose pattern compiles
CompilingRules(rules) ==
    SelectSeq(rules, LAMBDA r : compile_raises(r.pattern) = "")
Accepted(data) == [data EXCEPT !.rules = CompilingRules(data.rules)]

\* C26: a rule whose pattern fails to compile never makes the construction
\* of the engine fail, at startup or at a reload: the engine in force after
\* loading (or reloading) a valid config is the one built from that config
\* without its non-compiling rules, and holds compiled rules only.
C26_BadPatternSkipped ==
    (/\ call.fn \in {"load_config", "reload_config"}
     /\ call.done
     /\ ConfigAccepts(call.data)
     /\ call.fn = "load_config" => ~IsNone(call.data.waf_settings))
        => /\ mw # IdleMw
           /\ mw.security_engine = SecurityEngine(Accepted(call.data))
           /\ \A i \in DOMAIN mw.security_engine.rules :
                 mw.security_engine.rules[i].pattern.ok

HasBadEntry(data) ==
    \/ BadCidr \in Elems(data.trusted_proxies)
    \/ BadEntry \in Elems(data.ip_allowlist)
    \/ BadEntry \in Elems(data.ip_blocklist)

\* C31: Config(**data) with a trusted_proxies entry that is no CIDR, or an
\* allowlist or blocklist entry that is neither an IP nor a CIDR, raises
\* ValueError and publishes nothing: at startup no middleware is built, at a
\* poll the live middleware keeps every field.
C31_BadEntryRejected ==
    [][(call'.done /\ HasBadEntry(call'.data))
          => (call'.out = "ValueError" /\ mw' = mw)]_vars

C31_Witness ==
    /\ call.fn = "reload_config" /\ call.done
    /\ mw # IdleMw
    /\ call.data.trusted_proxies = <<Cidr(0, 0, 1), BadCidr>>
    /\ call.data.ip_allowlist = <<IpEntry(V4(1))>>
    /\ call.out = "ValueError"

\* ------------------------------------------------------------ NormalizeSpec
\* build_inspection_dict followed by evaluate (what lines 254-262 of the
\* middleware intend, and what the tests call directly), and normalize_query,
\* applied to drawn texts

MaxText == 4         \* characters of a drawn text

PathChars == {"/", ".", "a", "%2e", "%252e", "%2f", "\\", "%00"}
QueryChars == {"a", "%2e", "%252e", "%25252e", "%00"}
PathInputs == {<<"/">> \o t : t \in SeqsUpTo(PathChars, MaxText)}
QueryInputs == SeqsUpTo(QueryChars, MaxText)

\* the rule of the test configuration: '../' in the path, score 10
TraversalRule == Rule("PT001", "path", Literal(<<".", ".", "/">>), 10, TRUE)
TraversalConfig ==
    Config(<<"up1">>, <<>>, <<>>, <<>>, <<TraversalRule>>, NoneVal, DefaultRpm,
           WafSettings("block", DefaultMaxInspectBytes, DefaultMaxBodyBytes,
                       FALSE))

NormalizeInit ==
    /\ \/ call \in [fn : {"inspect"}, path : PathInputs, query : {<<>>},
                    done : {FALSE}, out : {NoResult}, text : {<<>>}]
       \/ call \in [fn : {"normalize_query"}, path : {<<"/">>},
                    query : QueryInputs, done : {FALSE}, out : {NoResult},
                    text : {<<>>}]
    /\ engine = SecurityEngine(TraversalConfig)
    /\ mw = IdleMw /\ now = 0 /\ req = <<>>
    /\ poller = IdlePoller /\ metrics = ZeroMetrics

InspectCall ==
    /\ call.fn = "inspect" /\ ~call.done
    /\ call' = [call EXCEPT !.done = TRUE,
                 !.out = evaluate(engine,
                                  build_inspection_dict(
                                      [path |-> call.path,
                                       query |-> call.query],
                                      engine.max_inspect_bytes),
                                  V4(3))]
    /\ UNCHANGED <<mw, now, req, engine, poller, metrics>>

NormalizeQueryCall ==
    /\ call.fn = "normalize_query" /\ ~call.done
    /\ call' = [call EXCEPT !.done = TRUE,
                            !.text = normalize_query(call.query)]
    /\ UNCHANGED <<mw, now, req, engine, poller, metrics>>

NormalizeNext == InspectCall \/ NormalizeQueryCall
NormalizeSpec == NormalizeInit /\ [][NormalizeNext]_vars

\* C27: with the rule PT001 on target 'path' matching '../' (score 10, block
\* threshold 10, mode block) and a client on neither IP list, a request
\* whose decoded path holds '../' gets verdict BLOCK with PT001 among the
\* rule ids: the '..' of the decoded path is visible to the rule engine.
C27_TraversalBlocked ==
    (/\ call.fn = "inspect"
     /\ call.done
     /\ Search(TraversalRule.pattern, decode_path(call.path)))
        => /\ call.out.verdict = "BLOCK"
           /\ "PT001" \in Elems(call.out.rule_ids)

\* C29 (as claimed): for every query string q,
\* normalize_query(unquote(unquote(q))) = normalize_query(q).
C29_DecodeIdempotent ==
    (call.fn = "normalize_query" /\ call.done) =>
        normalize_query(unquote(unquote(call.query))) = call.text

\* C29 (amended): for every query string q that is percent-encoded at most
\* twice deep (unquote leaves unquote(unquote(q)) as it is),
\* normalize_query(unquote(unquote(q))) = normalize_query(q).
C29_DecodeIdempotentWithinBudget ==
    (/\ call.fn = "normalize_query"
     /\ call.done
     /\ unquote(unquote(unquote(call.query))) = unquote(unquote(call.query)))
        => normalize_query(unquote(unquote(call.query))) = call.text

\* a query holding a character encoded twice, decoded by normalize_query
C29_Witness ==
    /\ call.fn = "normalize_query"
    /\ call.done
    /\ "%252e" \in Elems(call.query)
    /\ "%00" \in Elems(call.query)
    /\ unquote(unquote(unquote(call.query))) = unquote(unquote(call.query))
    /\ "." \in Elems(call.text)
    /\ Len(call.text) < Len(call.query)

\* ------------------------------------ proxy/headers.py: forwarding headers
\* The dict add_forwarding_headers receives is the filtered copy of
\* request.headers (proxy_client.py lines 127-128), whose keys are lower-case.
\* A value is the list of its comma-separated entries, '' being <<>>.

XForwardedFor == Name("x-forwarded-for")
XForwardedProto == Name("x-forwarded-proto")
XForwardedHost == Name("x-forwarded-host")

add_forwarding_headers_overwriting(headers, client_ip, original_scheme, original_host) ==
    [k \in DOMAIN headers \cup {XForwardedFor, XForwardedProto, XForwardedHost}
        |-> IF k = XForwardedFor THEN <<client_ip>>
            ELSE IF k = XForwardedProto THEN <<original_scheme>>
            ELSE IF k = XForwardedHost THEN <<original_host>>
            ELSE headers[k]]

\* lines 111-145
add_forwarding_headers(headers, client_ip, original_scheme, original_host) ==
    LET xff == IF XForwardedFor \in DOMAIN headers
               THEN headers[XForwardedFor] ELSE <<>>
    IN  [k \in DOMAIN headers
                 \cup {XForwardedFor, XForwardedProto, XForwardedHost}
            |-> IF k = XForwardedFor
                THEN IF xff # <<>> THEN Append(xff, client_ip)
                     ELSE <<client_ip>>
                ELSE IF k \in DOMAIN headers THEN headers[k]
                ELSE IF k = XForwardedProto THEN <<original_scheme>>
                ELSE <<original_host>>]

\* ForwardingSpec: add_forwarding_headers applied to drawn dicts
ForwardedForPool == {<<>>, <<"10.0.0.1">>, <<"10.0.0.1", "10.0.0.2">>}
ForwardingDicts ==
    {[k \in keys |-> IF k = XForwardedFor THEN xff
                     ELSE IF k = XForwardedProto THEN proto
                     ELSE IF k = XForwardedHost THEN <<"a.com">>
                     ELSE <<"text/html">>] :
        keys \in SUBSET {XForwardedFor, XForwardedProto, XForwardedHost,
                         Name("accept")},
        xff \in ForwardedForPool, proto \in {<<>>, <<"https">>}}

ForwardingInit ==
    /\ call \in [fn : {"add_forwarding_headers"}, headers : ForwardingDicts,
                  client_ip : {"10.0.0.1", "10.0.0.3"},
                  original_scheme : {"http", "https"},
                  original_host : {"b.com"}, done : {FALSE}, out : {<<>>}]
    /\ mw = IdleMw /\ now = 0 /\ req = <<>> /\ engine = IdleEngine
    /\ poller = IdlePoller /\ metrics = ZeroMetrics

AddForwardingHeadersCall ==
    /\ call.fn = "add_forwarding_headers" /\ ~call.done
    /\ call' = [call EXCEPT !.done = TRUE,
                 !.out = add_forwarding_headers(call.headers, call.client_ip,
                                                call.original_scheme,
                                                call.original_host)]
    /\ UNCHANGED <<mw, now, req, engine, poller, metrics>>

ForwardingNext == AddForwardingHeadersCall
ForwardingSpec == ForwardingInit /\ [][ForwardingNext]_vars

\* C30: add_forwarding_headers appends client_ip to an existing
\* X-Forwarded-For value, keeping the earlier entries in order, or creates
\* the header with client_ip alone; it sets X-Forwarded-Proto and
\* X-Forwarded-Host only when they are absent; existing values and all other
\* headers are unchanged.
C30_ForwardingHeaders ==
    (call.fn = "add_forwarding_headers" /\ call.done) =>
        LET before == call.headers
            after == call.out
            had(k) == k \in DOMAIN before
        IN  /\ DOMAIN after = DOMAIN before
                   \cup {XForwardedFor, XForwardedProto, XForwardedHost}
            /\ (had(XForwardedFor) /\ before[XForwardedFor] # <<>>) =>
                   /\ Len(after[XForwardedFor]) = Len(before[XForwardedFor]) + 1
                   /\ SubSeq(after[XForwardedFor], 1,
                             Len(before[XForwardedFor])) = before[XForwardedFor]
                   /\ Last(after[XForwardedFor]) = call.client_ip
            /\ ~(had(XForwardedFor) /\ before[XForwardedFor] # <<>>) =>
                   after[XForwardedFor] = <<call.client_ip>>
            /\ ~had(XForwardedProto) =>
                   after[XForwardedProto] = <<call.original_scheme>>
            /\ ~had(XForwardedHost) =>
                   after[XForwardedHost] = <<call.original_host>>
            /\ \A k \in DOMAIN before \ {XForwardedFor} : after[k] = before[k]

\* an existing two-entry X-Forwarded-For extended by the client, beside an
\* X-Forwarded-Proto that differs from the scheme and is kept
C30_Witness ==
    /\ call.fn = "add_forwarding_headers" /\ call.done
    /\ XForwardedFor \in DOMAIN call.headers
    /\ Len(call.headers[XForwardedFor]) = 2
    /\ Len(call.out[XForwardedFor]) = 3
    /\ XForwardedProto \in DOMAIN call.headers
    /\ call.out[XForwardedProto] # <<call.original_scheme>>
    /\ XForwardedHost \notin DOMAIN call.headers
    /\ call.out[XForwardedHost] = <<call.original_host>>


\* ------------------------------------------ middleware/waf_middleware.py
\* How one call of WAFMiddleware.__call__ ends once the handler has reached a
\* response: every response is sent by "await response(scope, receive, send)",
\* which sends http.response.start and then http.response.body through the
\* server's send. The responses of lines 196-250 are sent inside the try of
\* line 186; the response of the handler of line 383 is sent inside that
\* handler, where nothing catches. call holds the position of the coroutine
\* (pc), the response being sent, the statuses of the responses started
\* towards the client (starts), the exception the handler caught (caught) and
\* the exception that left __call__ (raised).

\* what an await on send can raise: the transport fails (an Exception), or
\* the task is cancelled (asyncio.CancelledError, a BaseException)
SendFailures == {"OSError", "CancelledError"}
IsException(exc) == exc # "CancelledError"

BodyEvents == {"exceeds", "ends", "fails"}

\* lines 186-258: the response the handler reaches for request q0, given the
\* limiter's answer and what the body stream does
Outcome(m, q0, allowed, body) ==
    LET ip == get_client_ip(q0.client, q0.xff, m.trusted_proxies)
        q1 == [q0 EXCEPT !.client_ip = ip, !.is_allowed = allowed,
                         !.trail = <<"get_client_ip", "is_allowed">>]
        q2 == AfterRateLimit(q1, m)
    IN  IF q2.pc # "read_body" THEN q2
        ELSE IF body = "exceeds"
        THEN Respond([q2 EXCEPT !.body_len = m.max_body_bytes + 1],
                     413, "payload_too_large", {"X-Request-ID"})
        ELSE IF body = "fails"
        THEN Inspect([q2 EXCEPT !.trail = Append(@, "read_failed")], m)
        ELSE Inspect(q2, m)

\* line 383: the status 500 is only ever built by the outer handler
InHandler(c) == c.pc \in {"handler_start", "handler_body"}
InTry(c) == c.pc \in {"try_start", "try_body"}

\* lines 383-395: what an exception raised at the current await becomes
Raise(c, exc) ==
    IF InTry(c) /\ IsException(exc)
    THEN [c EXCEPT !.pc = "handler_start", !.caught = exc,
                   !.response = [status |-> 500, error |-> "internal_error"]]
    ELSE [c EXCEPT !.pc = "escaped", !.raised = exc]

SendInit ==
    /\ mw = _initialize_components(ConfigA)
    /\ now = 0
    /\ req = [r \in 1 .. MaxReq |-> NewRequest]
    /\ engine = IdleEngine
    /\ poller = IdlePoller
    /\ metrics = ZeroMetrics
    /\ \E q0 \in {q \in RequestPool : ~bypasses(q.path)},
          allowed \in BOOLEAN, body \in BodyEvents :
          LET q == Outcome(mw, q0, allowed, body)
          IN  call = [fn |-> "__call__", q |-> q,
                      pc |-> IF q.status = 500 THEN "handler_start"
                             ELSE "try_start",
                      caught |-> IF q.status = 500 THEN "TypeError" ELSE "",
                      response |-> [status |-> q.status, error |-> q.error],
                      starts |-> <<>>, raised |-> ""]

\* http.response.start is sent. A server that has already started a response
\* on this connection refuses a second start (RuntimeError).
SendStart ==
    /\ call.pc \in {"try_start", "handler_start"}
    /\ call' = IF call.starts # <<>>
               THEN Raise(call, "RuntimeError")
               ELSE [call EXCEPT
                        !.starts = Append(@, call.response.status),
                        !.pc = IF InTry(call) THEN "try_body"
                               ELSE "handler_body"]
    /\ UNCHANGED <<mw, now, req, engine, poller, metrics>>

\* http.response.body is sent and __call__ returns
SendBody ==
    /\ call.pc \in {"try_body", "handler_body"}
    /\ call' = [call EXCEPT !.pc = "returned"]
    /\ UNCHANGED <<mw, now, req, engine, poller, metrics>>

\* the await on send raises
SendRaises ==
    /\ InTry(call) \/ InHandler(call)
    /\ \E exc \in SendFailures : call' = Raise(call, exc)
    /\ UNCHANGED <<mw, now, req, engine, poller, metrics>>

SendNext == SendStart \/ SendBody \/ SendRaises
SendSpec == SendInit /\ [][SendNext]_vars

\* C28: every non-bypass request ends with exactly one response started
\* towards the client and no exception leaving __call__; a failure outside
\* the forwarding leg, also one raised while a response is being sent, ends
\* as the response 500 internal_error.
C28_OneOutcomeNoEscape ==
    call.fn = "__call__" =>
        /\ call.pc # "escaped"
        /\ Len(call.starts) <= 1
        /\ call.pc = "returned" => Len(call.starts) = 1
        /\ (call.pc = "returned" /\ call.caught # "") =>
               call.starts = <<500>>


\* ------------------------------------------------ proxy/proxy_client.py
\* ProxyClient.forward_request and the forwarding leg of the middleware that
\* calls it. call holds the request (method, the body the client sends), how
\* many times the request stream has been read (stream_reads), the bytes the
\* pipeline buffered (body_bytes, lines 232-250 of the middleware), the
\* retries setting, what the upstream does, and the requests sent upstream.

MaxRetries == 2      \* largest retries setting drawn

BodyPool == {<<>>, <<"x">>, <<"x", "y">>}
ForwardMethods == {"GET", "POST", "PUT", "PATCH", "DELETE"}
UpstreamOutcomes == {"200", "ConnectError", "TimeoutException"}

Sent(has_body, body) == [has_body |-> has_body, content |-> body]

\* line 139, await request.body(): a request whose stream was already
\* consumed raises RuntimeError('Stream consumed'), lines 140-142 turn every
\* exception into b''
request_body(c) ==
    IF c.stream_reads > 0 THEN <<>> ELSE c.client_body

\* what one client.request of lines 152-159 puts on the wire
upstream_request(c) ==
    IF c.method \in BodyMethods THEN Sent(TRUE, request_body(c))
    ELSE Sent(FALSE, <<>>)

RECURSIVE Repeat(_, _)
Repeat(x, n) == IF n = 0 THEN <<>> ELSE <<x>> \o Repeat(x, n - 1)

forward_request_retrying(c) ==
    [c EXCEPT !.done = TRUE,
              !.stream_reads = IF c.method \in BodyMethods THEN @ + 1 ELSE @,
              !.sent = Repeat(upstream_request(c),
                              IF c.upstream = "ConnectError"
                              THEN 1 + c.retries ELSE 1),
              !.out = c.upstream]

\* lines 118-176: self.retries is stored by __init__ and never read; the
\* request is handed to the shared client once; TimeoutException and
\* RequestError are logged and raised again
forward_request(c) ==
    [c EXCEPT !.done = TRUE,
              !.stream_reads = IF c.method \in BodyMethods THEN @ + 1 ELSE @,
              !.sent = <<upstream_request(c)>>,
              !.out = c.upstream]

\* a call of forward_request from the middleware (the stream of a
\* body-method request was read at lines 232-250) or directly (tests)
ProxyInit ==
    /\ mw = IdleMw /\ now = 0 /\ req = <<>> /\ engine = IdleEngine
    /\ poller = IdlePoller /\ metrics = ZeroMetrics
    /\ \E method \in ForwardMethods, body \in BodyPool,
          retries \in 0 .. MaxRetries, up \in UpstreamOutcomes,
          via \in {"pipeline", "direct"} :
          LET buffered == via = "pipeline" /\ method \in BodyMethods
          IN  call = [fn |-> "forward_request", via |-> via,
                      method |-> method, client_body |-> body,
                      stream_reads |-> IF buffered THEN 1 ELSE 0,
                      body_bytes |-> IF buffered THEN body ELSE <<>>,
                      retries |-> retries, upstream |-> up,
                      sent |-> <<>>, done |-> FALSE, out |-> "pending"]

\* middleware lines 317-381 as written: forward_request is called with the
\* keyword body_bytes, which its signature (proxy_client.py lines 97-102)
\* does not have; the TypeError is caught at line 363 and becomes 502
\* upstream_error
ForwardLegCall ==
    /\ call.fn = "forward_request" /\ ~call.done /\ call.via = "pipeline"
    /\ call' = [call EXCEPT !.done = TRUE, !.out = "502 upstream_error"]
    /\ metrics' = inc(inc(metrics, "upstream_errors_total"), "requests_total")
    /\ UNCHANGED <<mw, now, req, engine, poller>>

\* forward_request called as its signature allows
ForwardRequestCall ==
    /\ call.fn = "forward_request" /\ ~call.done
    /\ call' = forward_request(call)
    /\ UNCHANGED <<mw, now, req, engine, poller, metrics>>

ProxyNext == ForwardLegCall \/ ForwardRequestCall
ProxySpec == ProxyInit /\ [][ProxyNext]_vars

\* C32: for a POST, PUT or PATCH request that is forwarded, the body is read
\* from the client exactly once and the bytes sent upstream are the bytes the
\* pipeline buffered during size enforcement.
C32_BodyReadOnceSentVerbatim ==
    (/\ call.fn = "forward_request" /\ call.done
     /\ call.via = "pipeline"
     /\ call.method \in BodyMethods
     /\ call.sent # <<>>)
        => /\ call.stream_reads = 1
           /\ call.sent = <<Sent(TRUE, call.body_bytes)>>

\* C36: a POST, PUT, PATCH or DELETE request is sent upstream at most once
\* whatever the retries setting, and with retries = 0 every request is sent
\* upstream at most once.
C36_NoRetryOfNonIdempotent ==
    (call.fn = "forward_request") =>
        /\ call.method \in {"POST", "PUT", "PATCH", "DELETE"}
              => Len(call.sent) <= 1
        /\ call.retries = 0 => Len(call.sent) <= 1

C36_Witness ==
    /\ call.fn = "forward_request" /\ call.done
    /\ call.method = "POST"
    /\ call.retries = MaxRetries
    /\ call.upstream = "ConnectError"
    /\ Len(call.sent) = 1


\* ------------------------------------------------ main.py: the sweeper task
\* lifespan (lines 120-124) reads app.state.rate_limiter once, at startup,
\* and hands that object to cleanup_rate_limiter_periodically (lines 29-37),
\* which sweeps it for ever. reload_config (middleware lines 124-131) builds a
\* new RateLimiter and assigns it to self.rate_limiter; neither app.state nor
\* the task is told. call.attached says whether the object the task holds is
\* still the live limiter; once it is not, call.rate_limiter is that object.

MaxSweeps == 1           \* sweeps of a run
SweeperMaxTime == 30     \* the clock of SweeperSpec stops here

SweeperInit ==
    /\ mw = _initialize_components(ConfigA)
    /\ now = 0
    /\ call = [fn |-> "cleanup_rate_limiter_periodically", attached |-> TRUE,
               rate_limiter |-> RateLimiter(0), sweeps |-> 0, ttl |-> 0]
    /\ req = <<>> /\ engine = IdleEngine
    /\ poller = IdlePoller /\ metrics = ZeroMetrics

\* middleware lines 191-194 on the live limiter
SweeperIsAllowed ==
    /\ \E key \in KeyPool, err \in RoundingErrors :
          mw' = [mw EXCEPT !.rate_limiter =
                    is_allowed(mw.rate_limiter, key, 0, now, err).rl]
    /\ UNCHANGED <<now, req, engine, call, poller, metrics>>

\* a poll reloads: the task keeps the limiter it was started with
SweeperReload ==
    /\ \E c \in ReloadCandidates :
          mw' = reload_config(mw, c.config, c.version_hash)
    /\ call' = IF call.attached
               THEN [call EXCEPT !.attached = FALSE,
                                 !.rate_limiter = mw.rate_limiter]
               ELSE call
    /\ UNCHANGED <<now, req, engine, poller, metrics>>

\* main.py line 34: one sweep of the limiter the task holds
Sweep ==
    /\ call.sweeps < MaxSweeps
    /\ \E ttl_seconds \in TtlPool :
          IF call.attached
          THEN /\ mw' = [mw EXCEPT !.rate_limiter =
                           cleanup_old_buckets(@, ttl_seconds, now)]
               /\ call' = [call EXCEPT !.sweeps = @ + 1,
                                       !.ttl = ttl_seconds]
          ELSE /\ mw' = mw
               /\ call' = [call EXCEPT
                              !.rate_limiter =
                                  cleanup_old_buckets(@, ttl_seconds, now),
                              !.sweeps = @ + 1, !.ttl = ttl_seconds]
    /\ UNCHANGED <<now, req, engine, poller, metrics>>

SweeperTick ==
    /\ now < SweeperMaxTime
    /\ now' = now + LimiterTickSeconds
    /\ UNCHANGED <<mw, req, engine, call, poller, metrics>>

SweeperNext == SweeperIsAllowed \/ SweeperReload \/ Sweep \/ SweeperTick
SweeperSpec == SweeperInit /\ [][SweeperNext]_vars

\* C34: a sweep removes from the live limiter every bucket whose last_refill
\* is older than the TTL and keeps the others, also after hot reloads have
\* replaced the limiter.
C34_SweepCleansLiveLimiter ==
    [][(call'.sweeps = call.sweeps + 1)
          => LET live == mw.rate_limiter.buckets
                 fresh == {k \in DOMAIN live :
                              ~(now - live[k].last_refill > call'.ttl)}
             IN  mw'.rate_limiter.buckets = [k \in fresh |-> live[k]]]_vars


\* ------------------------------------- proxy/rate_limiter.py: concurrency
\* N coroutines call is_allowed with one key while a sweep runs, all at one
\* instant of the clock. Each takes self.lock (async with, lines 78 and 93),
\* runs its body and releases; the body of is_allowed is taken in two steps
\* (fetch the bucket, use it), so that the lock is what keeps them together. call.lock is 0 when the lock
\* is free, else the coroutine holding it (Sweeper for the sweep).

MaxCallers == 3          \* concurrent is_allowed calls

ConcurrentNow == SecondsPerMinute + LimiterTickSeconds
ConcurrentKey == V4(1)
OtherKey == V4(2)
Sweeper == MaxCallers + 1

StaleBucket(capacity, whole) ==
    [TokenBucket(capacity, capacity, 0) EXCEPT !.tokens = TokenUnit * whole]
FreshBucket(capacity, whole) ==
    [TokenBucket(capacity, capacity, ConcurrentNow)
        EXCEPT !.tokens = TokenUnit * whole]

ConcurrentInit ==
    /\ now = ConcurrentNow
    /\ req = <<>> /\ engine = IdleEngine
    /\ poller = IdlePoller /\ metrics = ZeroMetrics
    /\ \E capacity \in 1 .. 2, whole \in 0 .. 2, n \in 1 .. MaxCallers,
          kind \in {"absent", "fresh", "stale"} :
          /\ whole <= capacity
          /\ kind = "absent" => whole = capacity
          /\ mw = [rate_limiter |->
                     [default_rpm |-> capacity,
                      buckets |->
                         [k \in IF kind = "absent" THEN {OtherKey}
                                ELSE {ConcurrentKey, OtherKey} |->
                             IF k = OtherKey THEN StaleBucket(capacity, 0)
                             ELSE IF kind = "fresh"
                             THEN FreshBucket(capacity, whole)
                             ELSE StaleBucket(capacity, whole)]]]
          /\ call = [fn |-> "concurrent", n |-> n, kind |-> kind,
                     k |-> IF kind = "fresh" THEN whole ELSE capacity,
                     pc |-> [i \in 1 .. Sweeper |->
                               IF i <= n \/ i = Sweeper THEN "start"
                               ELSE "absent"],
                     ok |-> [i \in 1 .. MaxCallers |-> FALSE],
                     held |-> [i \in 1 .. MaxCallers |->
                                 TokenBucket(0, 0, 0)],
                     lock |-> 0]

\* async with self.lock (lines 78 and 93): entered only while no coroutine
\* holds the lock
CanEnter_always(lock) == TRUE

CanEnter(lock) == lock = 0

Acquire(i) ==
    /\ call.pc[i] = "start"
    /\ CanEnter(call.lock)
    /\ call' = [call EXCEPT !.pc[i] = "locked", !.lock = i]
    /\ UNCHANGED <<mw, now, req, engine, poller, metrics>>

\* lines 80-83: bucket = self.buckets[key]; the defaultdict creates the
\* bucket of a new key
Fetch(i) ==
    /\ i <= MaxCallers
    /\ call.pc[i] = "locked"
    /\ LET rl == mw.rate_limiter
           bucket == IF ConcurrentKey \in DOMAIN rl.buckets
                     THEN rl.buckets[ConcurrentKey]
                     ELSE TokenBucket(rl.default_rpm, rl.default_rpm, now)
       IN  /\ mw' = [mw EXCEPT !.rate_limiter.buckets =
                        [k \in DOMAIN rl.buckets \cup {ConcurrentKey} |->
                            IF k = ConcurrentKey THEN bucket
                            ELSE rl.buckets[k]]]
           /\ call' = [call EXCEPT !.pc[i] = "fetched", !.held[i] = bucket]
    /\ UNCHANGED <<now, req, engine, poller, metrics>>

\* line 84: bucket.allow_request() on the object fetched, which is the
\* map's entry unless the entry was deleted meanwhile; then the lock is
\* released
AllowRequest(i) ==
    /\ i <= MaxCallers
    /\ call.pc[i] = "fetched"
    /\ \E err \in RoundingErrors :
          LET rl == mw.rate_limiter
              in_map == ConcurrentKey \in DOMAIN rl.buckets
              res == allow_request(IF in_map THEN rl.buckets[ConcurrentKey]
                                   ELSE call.held[i], now, err)
          IN  /\ mw' = IF in_map
                       THEN [mw EXCEPT
                                !.rate_limiter.buckets[ConcurrentKey] =
                                    res.bucket]
                       ELSE mw
              /\ call' = [call EXCEPT !.pc[i] = "done", !.ok[i] = res.ok,
                                      !.held[i] = res.bucket, !.lock = 0]
    /\ UNCHANGED <<now, req, engine, poller, metrics>>

\* lines 94-100, then the lock is released
CleanupBody ==
    /\ call.pc[Sweeper] = "locked"
    /\ mw' = [mw EXCEPT !.rate_limiter =
                 cleanup_old_buckets(@, SecondsPerMinute, now)]
    /\ call' = [call EXCEPT !.pc[Sweeper] = "done", !.lock = 0]
    /\ UNCHANGED <<now, req, engine, poller, metrics>>

ConcurrentNext ==
    \/ \E i \in 1 .. Sweeper : Acquire(i)
    \/ \E i \in 1 .. MaxCallers : Fetch(i)
    \/ \E i \in 1 .. MaxCallers : AllowRequest(i)
    \/ CleanupBody
ConcurrentSpec == ConcurrentInit /\ [][ConcurrentNext]_vars

Allowed == {i \in 1 .. MaxCallers : call.ok[i]}
CallersDone == \A i \in 1 .. MaxCallers : call.pc[i] \in {"done", "absent"}

\* C35: N concurrent is_allowed calls on one key holding k whole tokens, with
\* no time passing, return true exactly min(N, k) times in every
\* interleaving, also with a concurrent sweep: no decrement is lost (the
\* bucket ends with k - min(N, k) tokens) and the key's bucket is in the map
\* when the calls are over.
C35_ConcurrentCallsAtomic ==
    (call.fn = "concurrent") =>
        /\ Cardinality(Allowed) <= call.k
        /\ CallersDone =>
              /\ Cardinality(Allowed) = Min(call.n, call.k)
              /\ ConcurrentKey \in DOMAIN mw.rate_limiter.buckets
              /\ mw.rate_limiter.buckets[ConcurrentKey].tokens
                     = TokenUnit * (call.k - Min(call.n, call.k))

C35_Witness ==
    /\ call.fn = "concurrent"
    /\ CallersDone /\ call.pc[Sweeper] = "done"
    /\ call.n = MaxCallers /\ call.k = 2
    /\ call.kind = "fresh"
    /\ Cardinality(Allowed) = 2
    /\ OtherKey \notin DOMAIN mw.rate_limiter.buckets


\* --------------------------------- proxy/rate_limiter.py: sweeps and results
\* Two limiters built alike receive the same is_allowed calls at the same
\* times; mw.rate_limiter is also swept, call.plain never is. call holds the
\* last call and both its results, the limits passed so far for each key, and
\* the keys a sweep has removed.

EquivMaxTime == 105      \* the clock of SweepEquivSpec stops here
EquivTickSeconds == 35   \* seconds that pass in one step of that clock

LimitPool == {0, 1}      \* limit=None, limit=1
EquivTtlPool == {SecondsPerMinute, SecondsPerMinute + LimiterMaxTime}

BucketOf(rl, key) ==
    IF key \in DOMAIN rl.buckets THEN <<rl.buckets[key]>> ELSE <<>>

SweepEquivInit ==
    /\ \E rpm \in RpmPool :
          /\ mw = [rate_limiter |-> RateLimiter(rpm)]
          /\ call = [fn |-> "sweep_equivalence", plain |-> RateLimiter(rpm),
                     n |-> 0, key |-> BadIp, limit |-> 0,
                     ok_swept |-> FALSE, ok_plain |-> FALSE,
                     limits |-> [k \in KeyPool |-> {}], swept |-> {}]
    /\ now = 0
    /\ req = <<>> /\ engine = IdleEngine
    /\ poller = IdlePoller /\ metrics = ZeroMetrics

\* one is_allowed call, made on both limiters; equal buckets round alike
EquivIsAllowedCall ==
    /\ call.n < MaxCalls
    /\ \E key \in KeyPool, limit \in LimitPool,
          err1 \in RoundingErrors, err2 \in RoundingErrors :
          /\ BucketOf(mw.rate_limiter, key) = BucketOf(call.plain, key)
                => err1 = err2
          /\ LET a == is_allowed(mw.rate_limiter, key, limit, now, err1)
                 b == is_allowed(call.plain, key, limit, now, err2)
             IN  /\ mw' = [mw EXCEPT !.rate_limiter = a.rl]
                 /\ call' = [call EXCEPT
                                !.plain = b.rl, !.n = @ + 1, !.key = key,
                                !.limit = limit, !.ok_swept = a.ok,
                                !.ok_plain = b.ok,
                                !.limits[key] = @ \cup {limit}]
    /\ UNCHANGED <<now, req, engine, poller, metrics>>

\* a sweep inserted into the first run only
EquivCleanupCall ==
    /\ \E ttl_seconds \in EquivTtlPool :
          LET swept == cleanup_old_buckets(mw.rate_limiter, ttl_seconds, now)
          IN  /\ mw' = [mw EXCEPT !.rate_limiter = swept]
              /\ call' = [call EXCEPT !.swept =
                             @ \cup (DOMAIN mw.rate_limiter.buckets
                                       \ DOMAIN swept.buckets)]
    /\ UNCHANGED <<now, req, engine, poller, metrics>>

EquivTick ==
    /\ now < EquivMaxTime
    /\ now' = now + EquivTickSeconds
    /\ UNCHANGED <<mw, req, engine, call, poller, metrics>>

SweepEquivNext == EquivIsAllowedCall \/ EquivCleanupCall \/ EquivTick
SweepEquivSpec == SweepEquivInit /\ [][SweepEquivNext]_vars

MaxPairRequests == 3     \* requests of each of the two runs

\* trusted_proxies of the pair: none, or one CIDR
PairTrusted == {tp \in TrustedValues : Len(tp) <= 1}
\* X-Forwarded-For headers of the pair: absent, one address, a chain, junk
PairXffValues == {<<>>, <<V4(3)>>, <<V4(3), V4(1)>>, <<BadIp>>}
\* the engine's lists vary, its rules and thresholds do not
PairEngineConfigs ==
    {c \in EngineConfigs :
        /\ c.thresholds = NoneVal
        /\ c.waf_settings = WafSettings("block", 1, 2, FALSE)
        /\ c.rules = <<>>}

XffPairInit ==
    /\ \E rpm \in RpmPool, tp \in PairTrusted, client \in ClientPool :
          /\ mw = [rate_limiter |-> RateLimiter(rpm), trusted_proxies |-> tp]
          /\ call = [fn |-> "xff_pair", other |-> RateLimiter(rpm), n |-> 0,
                     all_untrusted |-> TRUE, client |-> client,
                     differ |-> FALSE,
                     ip_a |-> BadIp, ip_b |-> BadIp,
                     ok_a |-> FALSE, ok_b |-> FALSE,
                     verdict_a |-> NoResult, verdict_b |-> NoResult]
    /\ \E config \in PairEngineConfigs : engine = SecurityEngine(config)
    /\ now = 0
    /\ req = <<>> /\ poller = IdlePoller /\ metrics = ZeroMetrics

\* the same request in both runs, up to its X-Forwarded-For header; equal
\* buckets round alike. call.differ: the two headers are both present and
\* are not the same. The comparison ends with the first request of a trusted
\* peer, whose X-Forwarded-For header the code does read
XffPairRequest ==
    /\ call.n < MaxPairRequests /\ call.all_untrusted
    /\ \E xff_a \in PairXffValues, xff_b \in PairXffValues,
          err1 \in RoundingErrors, err2 \in RoundingErrors :
          LET ip_a == get_client_ip(call.client, xff_a, mw.trusted_proxies)
              ip_b == get_client_ip(call.client, xff_b, mw.trusted_proxies)
              a == is_allowed(mw.rate_limiter, ip_a, 0, now, err1)
              b == is_allowed(call.other, ip_b, 0, now, err2)
          IN  /\ BucketOf(mw.rate_limiter, ip_a) = BucketOf(call.other, ip_b)
                    => err1 = err2
              /\ mw' = [mw EXCEPT !.rate_limiter = a.rl]
              /\ call' = [call EXCEPT
                             !.other = b.rl, !.n = @ + 1,
                             !.all_untrusted =
                                 ~PeerTrusted(call.client, mw.trusted_proxies),
                             !.differ = (xff_a # xff_b /\ xff_a # <<>>
                                           /\ xff_b # <<>>),
                             !.ip_a = ip_a, !.ip_b = ip_b,
                             !.ok_a = a.ok, !.ok_b = b.ok,
                             !.verdict_a = evaluate(engine, NoInspection, ip_a),
                             !.verdict_b = evaluate(engine, NoInspection, ip_b)]
    /\ UNCHANGED <<now, req, engine, poller, metrics>>

XffPairTick ==
    /\ now < LimiterMaxTime
    /\ now' = now + LimiterTickSeconds
    /\ UNCHANGED <<mw, req, engine, call, poller, metrics>>

XffPairNext == XffPairRequest \/ XffPairTick
XffPairSpec == XffPairInit /\ [][XffPairNext]_vars

\* C39: as long as every request of the two runs came from a peer outside
\* every trusted CIDR, the runs, which differ only in their X-Forwarded-For
\* headers, key the limiter by the peer address, get the same is_allowed
\* answer (429 or not) at every request, leave the two limiters in the same
\* state, and give the engine the same address for its allowlist/blocklist
\* decision, which therefore is the same.
C39_XffCannotEvadeLimits ==
    (call.fn = "xff_pair" /\ call.n > 0 /\ call.all_untrusted)
        => /\ call.ip_a = peer_ip_of(call.client)
           /\ call.ip_b = peer_ip_of(call.client)
           /\ call.ok_a = call.ok_b
           /\ call.verdict_a = call.verdict_b
           /\ mw.rate_limiter = call.other

\* a third request of an untrusted peer is refused in both runs although the
\* two runs carry different X-Forwarded-For headers and proxies are trusted
C39_Witness ==
    /\ call.fn = "xff_pair" /\ call.n = MaxPairRequests /\ call.all_untrusted
    /\ mw.trusted_proxies # <<>>
    /\ call.differ
    /\ ~call.ok_a /\ ~call.ok_b


\* ------------------------------------------------------------ PollLoopSpec
\* The control flow of poll_control_plane_config around one iteration: the
\* task is either inside the inner try (awaiting client.get, then handling
\* the answer) or awaiting asyncio.sleep; call.pc says which. Cancelling the
\* task raises CancelledError at the await it is suspended in.

\* the handlers of lines 93-98: TimeoutException, RequestError and every
\* other Exception; CancelledError derives from BaseException and passes them
LoopCatches_known(exc) == exc \in {"TimeoutException", "RequestError"}
LoopCatches(exc) == exc # "CancelledError"

\* client.get, response.json or anything else of the try block may raise
\* something the code does not name
LoopResponses == ControlPlaneResponses \cup {GetRaised("RuntimeError")}

PollLoopInit ==
    /\ mw = _initialize_components(ConfigA)
    /\ poller = IdlePoller
    /\ metrics = ZeroMetrics
    /\ call = [fn |-> "poll_control_plane_config", pc |-> "polling",
               escaped |-> ""]
    /\ now = 0 /\ req = <<>> /\ engine = IdleEngine

\* lines 59-98: one pass through the inner try and its handlers
PollStep ==
    /\ call.pc = "polling" /\ poller.polls < MaxPolls
    /\ \E response \in LoopResponses :
          LET out == poll_iteration(mw, poller, response)
          IN  /\ mw' = out.mw /\ poller' = out.poller
              /\ call' = IF response.raised = "" \/ LoopCatches(response.raised)
                         THEN [call EXCEPT !.pc = "sleeping"]
                         ELSE [call EXCEPT !.pc = "stopped",
                                           !.escaped = response.raised]
    /\ UNCHANGED <<now, req, engine, metrics>>

\* line 100: the sleep is over, back to the head of the while loop
Sleep ==
    /\ call.pc = "sleeping"
    /\ call' = [call EXCEPT !.pc = "polling"]
    /\ UNCHANGED <<mw, now, req, engine, poller, metrics>>

\* lines 102-104: the task is cancelled while it awaits
Cancel ==
    /\ call.pc \in {"polling", "sleeping"}
    /\ call' = IF LoopCatches("CancelledError")
               THEN [call EXCEPT !.pc = "sleeping"]
               ELSE [call EXCEPT !.pc = "cancelled",
                                 !.escaped = "CancelledError"]
    /\ UNCHANGED <<mw, now, req, engine, poller, metrics>>

PollLoopNext == PollStep \/ Sleep \/ Cancel
\* the event loop resumes a task whose await is over; client.get ends within
\* its timeout and asyncio.sleep within the poll interval
PollLoopSpec ==
    /\ PollLoopInit /\ [][PollLoopNext]_vars
    /\ WF_vars(PollStep) /\ WF_vars(Sleep)

\* C40: the poll loop never ends on its own (no exception of an iteration
\* escapes it), every iteration, whatever its outcome, is followed by the
\* sleep, and every sleep by the next iteration, unless the task is
\* cancelled; cancellation is the only way it stops.
C40_PollLoopSurvives ==
    /\ [](call.fn = "poll_control_plane_config" => call.pc # "stopped")
    /\ \A n \in 0 .. (MaxPolls - 1) :
          (call.pc = "polling" /\ poller.polls = n)
              ~> \/ call.pc = "sleeping" /\ poller.polls = n + 1
                 \/ call.pc = "cancelled"
    /\ \A n \in 1 .. MaxPolls :
          (call.pc = "sleeping" /\ poller.polls = n)
              ~> \/ call.pc = "polling" /\ poller.polls = n
                 \/ call.pc = "cancelled"

\* the loop polls again after an iteration that caught an unexpected exception
C40_Witness ==
    /\ call.fn = "poll_control_plane_config" /\ call.pc = "polling"
    /\ poller.polls >= 1 /\ poller.caught = "RuntimeError"

=============================================================================
